---- MODULE Spec2Model ----
(***************************************************************************)
(* Model of the STRATEGOS simulation engine (core/simulation.py and the    *)
(* components it binds: clock, event store, checkpoint store, reducer,     *)
(* handler registry, spatial index, movement system).                      *)
(*                                                                         *)
(* Scheduling: asyncio, one cooperative event loop.  A coroutine runs      *)
(* without interruption until it awaits something that really suspends.    *)
(* `cpu` names the task that currently holds the loop; every other action  *)
(* requires cpu = NoTask.  A task's call stack is stack[t] (top first).    *)
(*                                                                         *)
(* Time is counted in whole clock steps (the 60 Hz update loop adds one    *)
(* step per Tick); positions and velocities are 3-tuples of integers.      *)
(***************************************************************************)
EXTENDS Integers, Sequences, FiniteSets, TLC

\* ------------------------------------------------------------------ bounds
MaxTime == 2
MaxEvents == 2
RewindEvents == 3
MaxFaults == 1
MaxListeners == 1
CheckpointInterval == 2
MaxLag == 1
MaxInits == 2
MaxHandlers == 3

\* steps of checkpoint time per unit of the last digit of a file name
StampGrain == 3

Tasks == {"t1", "t2"}
NoTask == "none"
Times == 0..MaxTime
SeekTargets == 0..MaxTime
ClockTargets == -1..MaxTime

\* ------------------------------------------------------------- event kinds
\* core/events.py EventType
EventType == {"simulation.started", "simulation.paused", "simulation.resumed",
              "simulation.stopped", "time.scaled", "simulation.time_scale_changed",
              "marker.created", "entity.created", "entity.moved",
              "entity.destroyed", "checkpoint.created", "checkpoint.restored"}

\* a user-defined kind outside the enumeration
CustomKind == "custom.event.type"

\* A payload value that is not a Python str (an int, None, ...).
NotAStr == "<not-a-str>"

EntityIds == {"e1", "e2"}
EntityTypeLabels == {"infantry", "armor"}
Origin == <<0, 0, 0>>
Positions == {Origin}
Velocities == {<<1, 0, 0>>}

EmptyMap == [x \in {} |-> 0]

\* ---------------------------------------------------------------- validator
\* EventValidator.SCHEMAS: required keys per kind
SchemaRequired(kind) ==
    CASE kind = "simulation.started" -> {"simulation_id", "time_scale"}
      [] kind = "simulation.paused"  -> {"simulation_id", "paused_at"}
      [] kind = "simulation.stopped" -> {"simulation_id"}
      [] kind = "time.scaled"        -> {"old_scale", "new_scale"}
      [] kind = "marker.created"     -> {"label"}
      [] kind = "entity.created"     -> {"entity_id", "type"}
      [] kind = "entity.moved"       -> {"entity_id"}
      [] kind = "entity.destroyed"   -> {"entity_id"}
      [] OTHER -> {}

\* EventValidator.SCHEMAS: keys whose value must be a str
SchemaStrFields(kind) ==
    CASE kind = "simulation.started" -> {"simulation_id"}
      [] kind = "simulation.paused"  -> {"simulation_id"}
      [] kind = "simulation.stopped" -> {"simulation_id"}
      [] kind = "marker.created"     -> {"label"}
      [] kind = "entity.created"     -> {"entity_id", "type"}
      [] kind = "entity.moved"       -> {"entity_id"}
      [] kind = "entity.destroyed"   -> {"entity_id"}
      [] OTHER -> {}

\* EventValidator.SCHEMAS: keys whose value must be an int or float
SchemaNumFields(kind) ==
    CASE kind = "simulation.started" -> {"time_scale"}
      [] kind = "simulation.paused"  -> {"paused_at"}
      [] kind = "time.scaled"        -> {"old_scale", "new_scale"}
      [] OTHER -> {}

SchemaKinds == {"simulation.started", "simulation.paused", "simulation.stopped",
                "time.scaled", "marker.created", "entity.created",
                "entity.moved", "entity.destroyed"}

\* a validator that checks the required keys and forgets the type checks
ValidateRequiredOnly(kind, data) ==
    kind \in SchemaKinds => SchemaRequired(kind) \subseteq DOMAIN data

\* EventValidator.validate: TRUE when no EventValidationError is raised
Validate(kind, data) ==
    IF kind \notin EventType THEN TRUE
    ELSE IF kind \notin SchemaKinds THEN TRUE
    ELSE /\ SchemaRequired(kind) \subseteq DOMAIN data
         /\ \A f \in SchemaStrFields(kind) \cap DOMAIN data : data[f] # NotAStr
         /\ \A f \in SchemaNumFields(kind) \cap DOMAIN data : data[f] \in Int

\* ------------------------------------------------------------------ reducer
\* WorldState(); `applied` is a history field: the ids of the events applied
\* to this WorldState object, in order (it travels with the pickled state).
EmptyWorldState ==
    [simulation_time |-> 0, event_count |-> 0,
     entities |-> EmptyMap, entity_types |-> EmptyMap, applied |-> <<>>]

MapPut(f, k, v) == [x \in DOMAIN f \cup {k} |-> IF x = k THEN v ELSE f[x]]
MapDel(f, k) == [x \in DOMAIN f \ {k} |-> f[x]]

\* WorldState._apply_entity_created raises KeyError: the schema does not
\* require "position" but the reducer reads it.
ReducerRaises(e) ==
    e.event_type = "entity.created" /\ "position" \notin DOMAIN e.data

\* first two statements of apply_event
\* a header step that counts the event and leaves the time where it was
ApplyHeaderKeepsTime(s, e) ==
    [s EXCEPT !.event_count = @ + 1,
              !.applied = Append(@, e.event_id)]

ApplyHeader(s, e) ==
    [s EXCEPT !.simulation_time = e.simulation_time,
              !.event_count = @ + 1,
              !.applied = Append(@, e.event_id)]

_apply_entity_created(s, e) ==
    LET id == e.data.entity_id
        ty == e.data.type
        rec == [type |-> ty, position |-> e.data.position, velocity |-> Origin,
                created_at |-> e.simulation_time,
                last_update_time |-> e.simulation_time]
        old == IF ty \in DOMAIN s.entity_types THEN s.entity_types[ty] ELSE {}
    IN [s EXCEPT !.entities = MapPut(@, id, rec),
                 !.entity_types = MapPut(@, ty, old \cup {id})]

_apply_entity_moved(s, e) ==
    LET id == e.data.entity_id IN
    IF id \notin DOMAIN s.entities THEN s
    ELSE LET r0 == s.entities[id]
             r1 == IF "position" \in DOMAIN e.data
                   THEN [r0 EXCEPT !.position = e.data.position] ELSE r0
             r2 == IF "velocity" \in DOMAIN e.data
                   THEN [r1 EXCEPT !.velocity = e.data.velocity] ELSE r1
             r3 == [r2 EXCEPT !.last_update_time = e.simulation_time]
         IN [s EXCEPT !.entities[id] = r3]

\* a reducer that takes the whole type of the destroyed entity away
_apply_entity_destroyed_type(s, e) ==
    LET id == e.data.entity_id IN
    IF id \notin DOMAIN s.entities THEN s
    ELSE LET ty == s.entities[id].type
             gone == {i \in DOMAIN s.entities : s.entities[i].type = ty}
         IN [s EXCEPT !.entity_types = [k \in DOMAIN @ |-> @[k] \ gone],
                      !.entities = [i \in DOMAIN @ \ gone |-> @[i]]]

_apply_entity_destroyed(s, e) ==
    LET id == e.data.entity_id IN
    IF id \notin DOMAIN s.entities THEN s
    ELSE LET ty == s.entities[id].type
             tys == IF ty \in DOMAIN s.entity_types
                    THEN [s.entity_types EXCEPT ![ty] = @ \ {id}]
                    ELSE s.entity_types
         IN [s EXCEPT !.entity_types = tys, !.entities = MapDel(@, id)]

\* WorldState.apply_event.  When the reducer raises, the header assignments
\* have already been made and stay.
apply_event(s, e) ==
    LET h == ApplyHeader(s, e) IN
    IF ReducerRaises(e) THEN h
    ELSE CASE e.event_type = "entity.created"   -> _apply_entity_created(h, e)
           [] e.event_type = "entity.moved"     -> _apply_entity_moved(h, e)
           [] e.event_type = "entity.destroyed" -> _apply_entity_destroyed(h, e)
           [] OTHER -> h

\* get_interpolated_position
get_interpolated_position(position, velocity, last_update_time, current_time) ==
    LET dt == current_time - last_update_time IN
    <<position[1] + velocity[1] * dt, position[2] + velocity[2] * dt,
      position[3] + velocity[3] * dt>>


\* --------------------------------------------------------------- event store
\* ORDER BY simulation_time ASC, created_at ASC
RECURSIVE SortRows(_)
SortRows(S) ==
    IF S = {} THEN <<>>
    ELSE LET m == CHOOSE x \in S : \A y \in S \ {x} :
                    \/ x.simulation_time < y.simulation_time
                    \/ /\ x.simulation_time = y.simulation_time
                       /\ x.created_at < y.created_at
         IN <<m>> \o SortRows(S \ {m})

Range(q) == {q[i] : i \in 1..Len(q)}

\* the rows the SELECT of get_events returns for the table contents `rows`
\* (WHERE clause: both bounds inclusive)
SelectRows(rows, from_time, to_time) ==
    SortRows({e \in Range(rows) :
                e.simulation_time >= from_time /\ e.simulation_time <= to_time})

\* get_events builds Event(event_type=EventType(row[2])): ValueError for a
\* stored kind outside the enumeration, re-raised as EventRetrievalError
RowsDecodeFails(rows) == \E i \in 1..Len(rows) : rows[i].event_type \notin EventType

\* ---------------------------------------------------------- checkpoint store
\* CheckpointStore.should_create_checkpoint
should_create_checkpoint(simulation_time) ==
    \/ simulation_time = 0
    \/ simulation_time % CheckpointInterval = 0

\* Times of the checkpoint store are counted in steps of which StampGrain
\* make up the resolution of a file name (1e-6); the clock of the
\* orchestrator is modelled at whole multiples of that resolution, so the
\* time t of the clock is the time t * StampGrain of the store.
\* f"checkpoint_{simulation_time:.6f}.pkl", read back by float(ts_str): the
\* time rounded to the resolution of the file name
FileStamp(simulation_time) ==
    StampGrain * ((2 * simulation_time + StampGrain) \div (2 * StampGrain))

\* CheckpointStore.get_nearest_before: the key of the checkpoint it returns,
\* or -1 for None.  cps maps the time a file name states to the Checkpoint
\* in that file.
get_nearest_before(cps, simulation_time) ==
    LET c == {ts \in DOMAIN cps : ts <= simulation_time} IN
    IF c = {} THEN -1 ELSE CHOOSE ts \in c : \A u \in c : u <= ts

\* Checkpoint.create
CheckpointCreate(simulation_time, s) ==
    [simulation_time |-> simulation_time, state_data |-> s]

\* ------------------------------------------------------------------- state
VARIABLES
    initialized,        \* Simulation._initialized
    sim_running,        \* Simulation._running
    clock_time,         \* SimulationClock._time_state.current_time
    is_running,         \* SimulationClock._time_state.is_running
    clock_state,        \* SimulationClock._clock_state
    update_task,        \* SimulationClock._update_task: "none", "live", "cancelled"
    orphan_loop,        \* an update loop is alive that _update_task no longer names
    movement_running,   \* MovementSystem.running (its loop task exists)
    db_open,            \* EventStore._db is a connection
    log,                \* rows of the events table, in insertion order
    checkpoints,        \* checkpoint files: time in the name -> Checkpoint
    state,              \* Simulation.state
    handlers,           \* EventHandlerRegistry._handlers
    wildcard_handlers,  \* EventHandlerRegistry._wildcard_handlers
    index_pos,          \* SpatialIndex._entity_positions
    rtree,              \* SpatialIndex._rtree: its entries [id, obj, box]
    stack,              \* per task: its coroutine frames, innermost first
    cpu,                \* the task running on the event loop, or NoTask
    dbq,                \* aiosqlite request queue: tasks with a pending request
    result,             \* outcome of the top-level call that finished last
    next_event,         \* events constructed so far (uuid4 / created_at order)
    handler_calls,      \* history: invocations of user handlers
    faults,             \* I/O faults the environment may still inject
    snap,               \* history: what an observer saw before the first seek
    event_cap,          \* the number of events this run may build
    time_scale,         \* SimulationClock._time_state.time_scale
    lag,                \* wall-clock steps elapsed since SimulationClock._last_update
    movement_tasks,     \* MovementSystem._update_loop tasks that are alive
    movement_system     \* Simulation.movement_system is not None

vars == <<initialized, sim_running, clock_time, is_running, clock_state,
          update_task, orphan_loop, movement_running, db_open, log, checkpoints, state,
          handlers, wildcard_handlers, index_pos, rtree, stack, cpu, dbq, result,
          next_event, handler_calls, faults, snap,
          event_cap, time_scale, lag, movement_tasks, movement_system>>

clockVars == <<clock_time, is_running, clock_state, update_task, orphan_loop,
               time_scale, lag>>
lifeVars == <<initialized, sim_running, movement_running, movement_tasks,
              movement_system>>
regVars == <<handlers, wildcard_handlers>>
storeVars == <<db_open, log, checkpoints>>
taskVars == <<stack, cpu, dbq, result>>

NoEvent == [event_id |-> 0, event_type |-> "none", simulation_time |-> 0,
            created_at |-> 0, data |-> EmptyMap]

\* `pre` is a history field of a seek frame: the world state and the clock
\* time at the moment seek was called.
Frame(op, pc, ev, hs, tgt, replay_from, rows) ==
    [op |-> op, pc |-> pc, ev |-> ev, hs |-> hs, tgt |-> tgt,
     replay_from |-> replay_from, rows |-> rows,
     pre |-> [state |-> EmptyWorldState, clock_time |-> 0]]

\* The observer's record: nothing yet ("none"), the entities seen at clock
\* time `time` when `mark` events had been built ("taken"), the first seek
\* went to that time ("sought"), or the run no longer fits ("void").
NoSnap == [phase |-> "none", time |-> 0, mark |-> 0, entities |-> EmptyMap]

Top(t) == Head(stack[t])
Idle(t) == cpu = NoTask /\ stack[t] = <<>>
At(t, pc) == cpu = t /\ stack[t] # <<>> /\ Top(t).pc = pc
Waiting(t, pc) == cpu = NoTask /\ stack[t] # <<>> /\ Top(t).pc = pc

\* Event(event_type, simulation_time=clock.get_time(), data)
NewEvent(kind, data) ==
    [event_id |-> next_event + 1, event_type |-> kind,
     simulation_time |-> clock_time, created_at |-> next_event + 1,
     data |-> data]

\* a dispatch list with the wildcard handlers first
wildcard_first(kind) ==
    wildcard_handlers \o (IF kind \in DOMAIN handlers THEN handlers[kind] ELSE <<>>)

\* handlers.get(event_type_str, []) + self._wildcard_handlers
all_handlers(kind) ==
    (IF kind \in DOMAIN handlers THEN handlers[kind] ELSE <<>>) \o wildcard_handlers

\* A coroutine of task t returns to its caller.  `below` is the stack under
\* the returning frame: empty for a top-level call (op, with argument arg);
\* otherwise the caller is a user handler awaited by dispatch, which goes on
\* with the next handler.
Return(t, below, op, arg, res) ==
    IF below = <<>>
    THEN /\ stack' = [stack EXCEPT ![t] = <<>>]
         /\ cpu' = NoTask
         /\ result' = [task |-> t, op |-> op, arg |-> arg, res |-> res]
    ELSE /\ stack' = [stack EXCEPT ![t] =
                 <<[Head(below) EXCEPT !.pc = "dispatch", !.hs = Tail(@)]>>
                 \o Tail(below)]
         /\ cpu' = t
         /\ UNCHANGED result

\* An exception propagates out of the innermost frame.  dispatch(fail_fast =
\* False) catches whatever a handler raises and continues.
Raise(t, below, op, arg, exc) == Return(t, below, op, arg, exc)

InitWith(cap) ==
    /\ event_cap = cap
    /\ initialized = FALSE
    /\ sim_running = FALSE
    /\ clock_time = 0
    /\ is_running = FALSE
    /\ clock_state = "stopped"
    /\ update_task = "none"
    /\ orphan_loop = FALSE
    /\ movement_running = FALSE
    /\ db_open = FALSE
    /\ log = <<>>
    /\ checkpoints = EmptyMap
    /\ state = EmptyWorldState
    /\ handlers = EmptyMap
    /\ wildcard_handlers = <<>>
    /\ index_pos = EmptyMap
    /\ rtree = {}
    /\ stack = [t \in Tasks |-> <<>>]
    /\ cpu = NoTask
    /\ dbq = <<>>
    /\ result = [task |-> NoTask, op |-> "none", arg |-> 0, res |-> "none"]
    /\ next_event = 0
    /\ handler_calls = <<>>
    /\ faults = MaxFaults
    /\ snap = NoSnap
    /\ time_scale = 1
    /\ lag = 0
    /\ movement_tasks = 0
    /\ movement_system = FALSE

Init == InitWith(MaxEvents)


\* ------------------------------------------------------------ spatial index
\* The tree files an entry under id(entity_id), the identity of the object
\* the caller passed, under the box of the position, with the id as payload.
\* obj says which object that was: "key" is the object that is the key of
\* the entity in _entity_positions, "other" any equal but distinct object
\* (a UUID a handler has just built, the key of state.entities).  Entries
\* that agree in id, obj and box are kept once.
\* An index is [positions |-> _entity_positions, tree |-> the entries].

\* _rtree.delete(id(entity_id), box): the trees it can leave.  It takes
\* out an entry filed under that identity in that box and does nothing when
\* there is none.  Two distinct objects have the same identity when the
\* first was freed before the second was made, so an "other" object may or
\* may not match an "other" entry of the box, whichever id it carries.
RtreeDelete(tree, id, obj, box) ==
    IF obj = "key"
    THEN {tree \ {[id |-> id, obj |-> "key", box |-> box]}}
    ELSE {tree} \cup {tree \ {e} : e \in {f \in tree : f.obj = "other" /\ f.box = box}}

\* SpatialIndex.insert: the indexes it can leave (one).  The object of the
\* first insert of an id becomes the key of _entity_positions.
IndexInsert(ix, id, obj, position) ==
    LET o == IF id \in DOMAIN ix.positions THEN obj ELSE "key" IN
    {[positions |-> MapPut(ix.positions, id, position),
      tree |-> ix.tree \cup {[id |-> id, obj |-> o, box |-> position]}]}

\* SpatialIndex.update
IndexUpdate(ix, id, obj, position) ==
    IF id \notin DOMAIN ix.positions
    THEN IndexInsert(ix, id, obj, position)
    ELSE {[positions |-> MapPut(ix.positions, id, position),
           tree |-> tr \cup {[id |-> id, obj |-> obj, box |-> position]}] :
             tr \in RtreeDelete(ix.tree, id, obj, ix.positions[id])}

\* SpatialIndex.remove.  With the entry of _entity_positions its key object
\* goes: what the tree still holds under it is under a distinct object
\* for every later call.
IndexRemove(ix, id, obj) ==
    IF id \notin DOMAIN ix.positions
    THEN {ix}
    ELSE {[positions |-> MapDel(ix.positions, id),
           tree |-> {IF e.id = id THEN [e EXCEPT !.obj = "other"] ELSE e : e \in tr}] :
             tr \in RtreeDelete(ix.tree, id, obj, ix.positions[id])}

\* squared distance of two positions, in the plane when ~include_z
Dist2(p, q, include_z) ==
    (p[1] - q[1]) * (p[1] - q[1]) + (p[2] - q[2]) * (p[2] - q[2])
    + (IF include_z THEN (p[3] - q[3]) * (p[3] - q[3]) ELSE 0)

\* the ids of the entries `hits`, each with the number of its entries: the
\* list a query returns, up to order
IdsOf(hits) == [id \in {e.id : e \in hits} |-> Cardinality({e \in hits : e.id = id})]

\* SpatialIndex.query_radius: the entries whose box meets the search box (of
\* unbounded height when ~include_z), then those whose id has a position in
\* _entity_positions that lies within radius
query_radius(ix, center, radius, include_z) ==
    LET candidates == {e \in ix.tree :
            \A i \in 1..3 : (i < 3 \/ include_z) =>
                /\ center[i] - radius <= e.box[i]
                /\ e.box[i] <= center[i] + radius}
    IN IdsOf({e \in candidates :
                /\ e.id \in DOMAIN ix.positions
                /\ Dist2(ix.positions[e.id], center, include_z) <= radius * radius})

\* SpatialIndex.query_bbox: the payload of every entry in the box
query_bbox(ix, min_point, max_point) ==
    IdsOf({e \in ix.tree :
             \A i \in 1..3 : min_point[i] <= e.box[i] /\ e.box[i] <= max_point[i]})

\* SpatialIndex.nearest_neighbors: the k entries nearest to the point by
\* their boxes (with those that tie with the last), then the ids among them
\* that have a position, each with the distance of that position
nearest_neighbors(ix, point, k, include_z) ==
    LET candidates == {e \in ix.tree :
            Cardinality({f \in ix.tree :
                Dist2(f.box, point, TRUE) < Dist2(e.box, point, TRUE)}) < k}
        found == IdsOf({e \in candidates : e.id \in DOMAIN ix.positions})
    IN [id \in DOMAIN found |->
          [count |-> found[id], dist2 |-> Dist2(ix.positions[id], point, include_z)]]

\* the SpatialIndex as it is
Index == [positions |-> index_pos, tree |-> rtree]

\* the call leaves one of the indexes of `outcomes`
IndexBecomes(outcomes) ==
    \E ix \in outcomes : index_pos' = ix.positions /\ rtree' = ix.tree

\* ----------------------------------------------------- Simulation.initialize
\* (a second initialize, after shutdown, makes a new SpatialIndex and a new
\* MovementSystem; the handlers and the loop task of the old ones stay)
Initialize ==
    /\ cpu = NoTask
    /\ ~initialized
    /\ initialized' = TRUE
    /\ movement_system' = TRUE
    /\ movement_running' = FALSE
    /\ index_pos' = EmptyMap
    /\ rtree' = {}
    /\ db_open' = TRUE
    /\ handlers' = [k \in {"entity.created", "entity.moved", "entity.destroyed"} |->
                      (IF k \in DOMAIN handlers THEN handlers[k] ELSE <<>>) \o
                      <<CASE k = "entity.created" -> "_handle_entity_created"
                          [] k = "entity.moved" -> "_handle_entity_moved"
                          [] OTHER -> "_handle_entity_destroyed">>]
    /\ UNCHANGED <<sim_running, movement_tasks, clockVars, log, checkpoints,
                   state, wildcard_handlers, taskVars, next_event,
                   handler_calls, faults>>
    /\ UNCHANGED <<snap, event_cap>>

\* Simulation.add_event_listener: a user coroutine subscribed to all events
AddEventListener ==
    /\ cpu = NoTask
    /\ Len(wildcard_handlers) < MaxListeners
    /\ wildcard_handlers' = Append(wildcard_handlers, "listener")
    /\ UNCHANGED <<lifeVars, clockVars, storeVars, state, handlers, index_pos, rtree,
                   taskVars, next_event, handler_calls, faults>>
    /\ UNCHANGED <<snap, event_cap>>

\* ------------------------------------------------------ SimulationClock loop
\* one iteration of SimulationClock._update_loop
Tick ==
    /\ cpu = NoTask
    /\ is_running
    /\ update_task = "live" \/ orphan_loop
    /\ clock_time + (lag + 1) * time_scale <= MaxTime
    /\ clock_time' = clock_time + (lag + 1) * time_scale
    /\ lag' = 0
    /\ UNCHANGED <<lifeVars, is_running, clock_state, update_task, orphan_loop,
                   time_scale, storeVars,
                   state, regVars, index_pos, rtree, taskVars, next_event,
                   handler_calls, faults>>
    /\ UNCHANGED <<snap, event_cap>>

\* ---------------------------------------------------- Simulation.emit_event
\* emit_event up to its first suspension: build the event, validate, and
\* hand the INSERT to the connection.  `below` is the caller's stack.
EmitEntry(t, below, op, kind, data) ==
    IF ~Validate(kind, data)
    THEN Raise(t, below, op, 0, "EventValidationError") /\ UNCHANGED <<dbq, next_event>>
    ELSE IF ~db_open
    THEN Raise(t, below, op, 0, "EventPersistenceError") /\ UNCHANGED <<dbq, next_event>>
    ELSE /\ stack' = [stack EXCEPT ![t] =
                 <<Frame(op, "append_exec", NewEvent(kind, data), <<>>, 0, 0, <<>>)>> \o below]
         /\ cpu' = NoTask
         /\ dbq' = Append(dbq, t)
         /\ next_event' = next_event + 1
         /\ UNCHANGED result

emitFrame == <<lifeVars, clockVars, storeVars, state, regVars, index_pos, rtree,
               handler_calls, faults>>

\* payloads a caller may hand to emit_event directly: some that the
\* validator lets through ...
PassingInputs ==
    { <<CustomKind, [note |-> "x"]>>,
      <<"entity.created", [entity_id |-> "e1", type |-> "infantry"]>> }

\* ... and some that lack a required key or carry a value of the wrong type
InvalidInputs ==
    { <<"entity.created", [entity_id |-> "e1"]>>,
      <<"entity.created", [entity_id |-> NotAStr, type |-> "infantry",
                           position |-> Origin]>>,
      <<"marker.created", [text |-> "m"]>> }

EmitEvent(t, kind, data) ==
    /\ Idle(t)
    /\ next_event < event_cap
    /\ EmitEntry(t, <<>>, "emit", kind, data)
    /\ UNCHANGED emitFrame
    /\ UNCHANGED <<snap, event_cap>>

\* Simulation.create_marker
CreateMarker(t) ==
    /\ Idle(t)
    /\ next_event < event_cap
    /\ EmitEntry(t, <<>>, "emit", "marker.created", [label |-> "m"])
    /\ UNCHANGED emitFrame
    /\ UNCHANGED <<snap, event_cap>>

\* ids that already name an entity somewhere (uuid4 never repeats one)
UsedIds ==
    {log[i].data.entity_id : i \in {j \in 1..Len(log) : "entity_id" \in DOMAIN log[j].data}}
    \cup UNION {{stack[t][i].ev.data.entity_id :
                  i \in {j \in 1..Len(stack[t]) : "entity_id" \in DOMAIN stack[t][j].ev.data}}
                : t \in Tasks}

\* Simulation.create_entity
CreateEntity(t, position) ==
    /\ Idle(t)
    /\ next_event < event_cap
    /\ EntityIds \ UsedIds # {}
    /\ LET id == IF "e1" \notin UsedIds THEN "e1" ELSE CHOOSE i \in EntityIds \ UsedIds : TRUE
       IN EmitEntry(t, <<>>, "emit", "entity.created",
                    [entity_id |-> id, type |-> "infantry", position |-> position])
    /\ UNCHANGED emitFrame
    /\ UNCHANGED <<snap, event_cap>>

\* Simulation.destroy_entity
DestroyEntity(t, id) ==
    /\ Idle(t)
    /\ next_event < event_cap
    /\ id \in UsedIds
    /\ EmitEntry(t, <<>>, "emit", "entity.destroyed", [entity_id |-> id])
    /\ UNCHANGED emitFrame
    /\ UNCHANGED <<snap, event_cap>>

\* a set_entity_velocity that records the stored position, not the
\* interpolated one
SetEntityVelocityStored(t, id, velocity) ==
    /\ Idle(t)
    /\ movement_system
    /\ IF id \notin DOMAIN state.entities
       THEN Return(t, <<>>, "set_entity_velocity", 0, "no_entity")
            /\ UNCHANGED <<dbq, next_event>>
       ELSE /\ next_event < event_cap
            /\ EmitEntry(t, <<>>, "set_entity_velocity", "entity.moved",
                         [entity_id |-> id, position |-> state.entities[id].position,
                          velocity |-> velocity])
    /\ UNCHANGED emitFrame
    /\ UNCHANGED <<snap, event_cap>>

\* MovementSystem.set_entity_velocity (via Simulation.set_entity_velocity);
\* for an id that names no entity it logs a warning and returns
SetEntityVelocity(t, id, velocity) ==
    /\ Idle(t)
    /\ movement_system
    /\ IF id \notin DOMAIN state.entities
       THEN Return(t, <<>>, "set_entity_velocity", 0, "no_entity")
            /\ UNCHANGED <<dbq, next_event>>
       ELSE /\ next_event < event_cap
            /\ LET entity == state.entities[id]
                   current_position == get_interpolated_position(
                       entity.position, entity.velocity, entity.last_update_time,
                       clock_time)
               IN EmitEntry(t, <<>>, "set_entity_velocity", "entity.moved",
                            [entity_id |-> id, position |-> current_position,
                             velocity |-> velocity])
    /\ UNCHANGED emitFrame
    /\ UNCHANGED <<snap, event_cap>>


\* The connection serves its requests one at a time, in the order they were
\* made; the requesting coroutine is resumed with the outcome.
\* a connection that serves its requests in any order
DbAny(t, pc) ==
    cpu = NoTask /\ \E i \in 1..Len(dbq) : dbq[i] = t /\ Top(t).pc = pc

DbHead(t, pc) == cpu = NoTask /\ dbq # <<>> /\ Head(dbq) = t /\ Top(t).pc = pc

\* a store that drops the logged events later than the one it appends
DbInsertTruncating(t) ==
    /\ DbHead(t, "append_exec")
    /\ log' = Append(SelectSeq(log, LAMBDA e :
                         e.simulation_time <= Top(t).ev.simulation_time), Top(t).ev)
    /\ stack' = [stack EXCEPT ![t][1].pc = "append_commit"]
    /\ dbq' = Append(Tail(dbq), t)
    /\ UNCHANGED <<lifeVars, clockVars, db_open, checkpoints, state, regVars,
                   index_pos, rtree, cpu, result, next_event, handler_calls, faults>>
    /\ UNCHANGED <<snap, event_cap>>

\* EventStore.append: the INSERT is executed; the coroutine goes on to commit
DbInsert(t) ==
    /\ DbHead(t, "append_exec")
    /\ log' = Append(log, Top(t).ev)
    /\ stack' = [stack EXCEPT ![t][1].pc = "append_commit"]
    /\ dbq' = Append(Tail(dbq), t)
    /\ UNCHANGED <<lifeVars, clockVars, db_open, checkpoints, state, regVars,
                   index_pos, rtree, cpu, result, next_event, handler_calls, faults>>
    /\ UNCHANGED <<snap, event_cap>>

\* an emit that reduces the event before it knows the write went through
DbInsertFailApplied(t) ==
    /\ DbHead(t, "append_exec")
    /\ faults > 0
    /\ faults' = faults - 1
    /\ dbq' = Tail(dbq)
    /\ state' = apply_event(state, Top(t).ev)
    /\ Raise(t, Tail(stack[t]), Top(t).op, Top(t).tgt, "EventPersistenceError")
    /\ UNCHANGED <<lifeVars, clockVars, storeVars, regVars, index_pos, rtree,
                   next_event, handler_calls, snap, event_cap>>

\* EventStore.append: the store rejects the INSERT -> EventPersistenceError
DbInsertFail(t) ==
    /\ DbHead(t, "append_exec")
    /\ faults > 0
    /\ faults' = faults - 1
    /\ dbq' = Tail(dbq)
    /\ Raise(t, Tail(stack[t]), Top(t).op, Top(t).tgt, "EventPersistenceError")
    /\ UNCHANGED <<lifeVars, clockVars, storeVars, state, regVars, index_pos, rtree,
                   next_event, handler_calls>>
    /\ UNCHANGED <<snap, event_cap>>

\* EventStore.append: commit done, append returns into emit_event
DbCommit(t) ==
    /\ DbHead(t, "append_commit")
    /\ dbq' = Tail(dbq)
    /\ cpu' = t
    /\ stack' = [stack EXCEPT ![t][1].pc = "apply"]
    /\ UNCHANGED <<lifeVars, clockVars, storeVars, state, regVars, index_pos, rtree,
                   result, next_event, handler_calls, faults>>
    /\ UNCHANGED <<snap, event_cap>>

\* emit_event: self.state.apply_event(event), then dispatch builds its list
\* (kept in `rows` as well, as in a dispatch called on its own)
EmitApply(t) ==
    /\ At(t, "apply")
    /\ state' = apply_event(state, Top(t).ev)
    /\ IF ReducerRaises(Top(t).ev)
       THEN Raise(t, Tail(stack[t]), Top(t).op, Top(t).tgt, "KeyError")
       ELSE /\ stack' = [stack EXCEPT ![t][1].pc = "dispatch",
                                      ![t][1].hs = all_handlers(Top(t).ev.event_type),
                                      ![t][1].rows = all_handlers(Top(t).ev.event_type)]
            /\ UNCHANGED <<cpu, result>>
    /\ UNCHANGED <<lifeVars, clockVars, storeVars, regVars, index_pos, rtree, dbq,
                   next_event, handler_calls, faults>>
    /\ UNCHANGED <<snap, event_cap>>

NextHandler(t, h) == At(t, "dispatch") /\ Top(t).hs # <<>> /\ Head(Top(t).hs) = h

\* a loop that reads the registry again after every handler
HandlerDoneLive(t) ==
    stack' = [stack EXCEPT ![t][1].hs =
                 LET live == all_handlers(Top(t).ev.event_type)
                     done == Len(Top(t).rows) - Len(Top(t).hs) + 1
                 IN SubSeq(live, done + 1, Len(live))]

HandlerDone(t) == stack' = [stack EXCEPT ![t][1].hs = Tail(@)]

dispatchFrame == <<lifeVars, clockVars, storeVars, state, regVars, cpu, dbq,
                   result, next_event, handler_calls, faults>>

\* SpatialIndex._handle_entity_created
HandleEntityCreated(t) ==
    /\ NextHandler(t, "_handle_entity_created")
    /\ IF Len(Top(t).ev.data.position) < 3
       THEN UNCHANGED <<index_pos, rtree>>
       ELSE IndexBecomes(IndexInsert(Index, Top(t).ev.data.entity_id, "other",
                                     Top(t).ev.data.position))
    /\ HandlerDone(t)
    /\ UNCHANGED dispatchFrame
    /\ UNCHANGED <<snap, event_cap>>

\* SpatialIndex._handle_entity_moved
HandleEntityMoved(t) ==
    /\ NextHandler(t, "_handle_entity_moved")
    /\ LET id == Top(t).ev.data.entity_id IN
       IF id \in DOMAIN state.entities
       THEN LET entity == state.entities[id] IN
            IndexBecomes(IndexUpdate(Index, id, "other",
                get_interpolated_position(entity.position, entity.velocity,
                                          entity.last_update_time, clock_time)))
       ELSE UNCHANGED <<index_pos, rtree>>
    /\ HandlerDone(t)
    /\ UNCHANGED dispatchFrame
    /\ UNCHANGED <<snap, event_cap>>

\* SpatialIndex._handle_entity_destroyed
HandleEntityDestroyed(t) ==
    /\ NextHandler(t, "_handle_entity_destroyed")
    /\ IndexBecomes(IndexRemove(Index, Top(t).ev.data.entity_id, "other"))
    /\ HandlerDone(t)
    /\ UNCHANGED dispatchFrame
    /\ UNCHANGED <<snap, event_cap>>

\* what a user handler sees when dispatch calls it
Observation(ev) ==
    [event_id |-> ev.event_id,
     in_state |-> ev.event_id \in Range(state.applied),
     in_log |-> ev \in Range(log)]

listenerFrame == <<lifeVars, clockVars, storeVars, state, regVars, index_pos, rtree, faults>>

\* the user handler returns without suspending
ListenerReturn(t) ==
    /\ NextHandler(t, "listener")
    /\ handler_calls' = Append(handler_calls, Observation(Top(t).ev))
    /\ HandlerDone(t)
    /\ UNCHANGED <<listenerFrame, cpu, dbq, result, next_event>>
    /\ UNCHANGED <<snap, event_cap>>

\* the user handler awaits I/O of its own (api.py send_event awaits the socket)
ListenerSuspend(t) ==
    /\ NextHandler(t, "listener")
    /\ handler_calls' = Append(handler_calls, Observation(Top(t).ev))
    /\ stack' = [stack EXCEPT ![t][1].pc = "handler_wait"]
    /\ cpu' = NoTask
    /\ UNCHANGED <<listenerFrame, dbq, result, next_event>>
    /\ UNCHANGED <<snap, event_cap>>

ListenerResume(t) ==
    /\ Waiting(t, "handler_wait")
    /\ stack' = [stack EXCEPT ![t][1].pc = "dispatch", ![t][1].hs = Tail(@)]
    /\ cpu' = t
    /\ UNCHANGED <<listenerFrame, dbq, result, next_event, handler_calls>>
    /\ UNCHANGED <<snap, event_cap>>

\* the user handler reacts to an event by emitting a marker
ListenerEmit(t) ==
    /\ NextHandler(t, "listener")
    /\ next_event < event_cap
    /\ handler_calls' = Append(handler_calls, Observation(Top(t).ev))
    /\ EmitEntry(t, [stack[t] EXCEPT ![1].pc = "in_handler"], "emit",
                 "marker.created", [label |-> "m"])
    /\ UNCHANGED listenerFrame
    /\ UNCHANGED <<snap, event_cap>>

\* emit_event: dispatch is over; the checkpoint decision, then return
EmitCheckpoint(t) ==
    /\ At(t, "dispatch")
    /\ Top(t).hs = <<>>
    /\ Top(t).op \notin {"dispatch", "dispatch_ff"}
    /\ checkpoints' =
         IF should_create_checkpoint(clock_time)
         THEN MapPut(checkpoints, FileStamp(clock_time * StampGrain),
                     CheckpointCreate(clock_time * StampGrain, state))
         ELSE checkpoints
    /\ Return(t, Tail(stack[t]), Top(t).op, Top(t).tgt, "ok")
    /\ UNCHANGED <<lifeVars, clockVars, db_open, log, state, regVars, index_pos, rtree,
                   dbq, next_event, handler_calls, faults>>
    /\ UNCHANGED <<snap, event_cap>>


\* ------------------------------------------------------------ clock methods
\* a start that keeps the wall-clock reference of the previous run
ClockStartBodyStale ==
    /\ is_running' = TRUE
    /\ clock_state' = "running"
    /\ lag' = lag
    /\ update_task' = "live"

\* SimulationClock.start from its is_running test to its sleep(0)
ClockStartBody ==
    /\ is_running' = TRUE
    /\ clock_state' = "running"
    /\ lag' = 0
    /\ update_task' = "live"

\* a pause that leaves the update task alone
ClockHaltBodyNoCancel(st) ==
    /\ is_running' = FALSE
    /\ clock_state' = st
    /\ update_task' = update_task

\* SimulationClock.pause / stop up to the await of the cancelled task
ClockHaltBody(st) ==
    /\ is_running' = FALSE
    /\ clock_state' = st
    /\ update_task' = IF update_task = "none" THEN "none" ELSE "cancelled"

\* ... and their `finally: self._update_task = None`; a loop started by
\* someone else in the meantime is alive but no longer referenced
ClockHaltFinally ==
    /\ update_task' = "none"
    /\ orphan_loop' = (orphan_loop \/ update_task = "live")

\* ------------------------------------------------------ MovementSystem loop
Moving == {id \in DOMAIN state.entities : state.entities[id].velocity # Origin}

\* the loop over moving_entities of _update_entities: spatial_index.update
\* with the key object of state.entities for each, in any order
RECURSIVE UpdateEach(_, _)
UpdateEach(ixs, ids) ==
    IF ids = {} THEN ixs
    ELSE UNION {UpdateEach(
                   UNION {IndexUpdate(ix, id, "other",
                              get_interpolated_position(state.entities[id].position,
                                  state.entities[id].velocity,
                                  state.entities[id].last_update_time, clock_time)) :
                          ix \in ixs},
                   ids \ {id}) : id \in ids}

\* MovementSystem._update_entities
\* a tick that writes the interpolated position back into the world state
MovementTickWriting ==
    /\ cpu = NoTask
    /\ movement_running
    /\ IndexBecomes(UpdateEach({Index}, Moving))
    /\ state' = [state EXCEPT !.entities =
                    [id \in DOMAIN @ |->
                       IF id \in Moving
                       THEN [@[id] EXCEPT
                               !.position = get_interpolated_position(@,
                                   state.entities[id].velocity,
                                   state.entities[id].last_update_time, clock_time),
                               !.last_update_time = clock_time]
                       ELSE @[id]]]
    /\ UNCHANGED <<lifeVars, clockVars, storeVars, regVars, taskVars,
                   next_event, handler_calls, faults>>
    /\ UNCHANGED <<snap, event_cap>>

MovementTick ==
    /\ cpu = NoTask
    /\ movement_running
    /\ IndexBecomes(UpdateEach({Index}, Moving))
    /\ UNCHANGED <<lifeVars, clockVars, storeVars, state, regVars, taskVars,
                   next_event, handler_calls, faults>>
    /\ UNCHANGED <<snap, event_cap>>

\* ----------------------------------------------------------- Simulation.seek
\* An observer reads the entities while no call is in progress and no seek
\* has been made (history only; the program does not see it).
Observe ==
    /\ cpu = NoTask
    /\ \A t \in Tasks : stack[t] = <<>>
    /\ snap.phase = "none"
    /\ DOMAIN state.entities # {}
    /\ snap' = [phase |-> "taken", time |-> clock_time, mark |-> next_event,
                entities |-> state.entities]
    /\ UNCHANGED <<lifeVars, clockVars, storeVars, state, regVars, index_pos, rtree,
                   taskVars, next_event, handler_calls, faults, event_cap>>

\* every event built after the observation carries a later time
LaterOnly ==
    \A i \in 1..Len(log) :
        log[i].event_id > snap.mark => log[i].simulation_time > snap.time

SnapAtSeek(target_time) ==
    IF snap.phase = "taken" /\ target_time = snap.time /\ LaterOnly
                            /\ next_event > snap.mark
    THEN [snap EXCEPT !.phase = "sought"]
    ELSE [snap EXCEPT !.phase = "void"]

\* get_nearest_before finds a file it cannot load -> CheckpointRestoreError
SeekCheckpointFail(t, target_time) ==
    /\ Idle(t)
    /\ snap' = SnapAtSeek(target_time)
    /\ faults > 0
    /\ get_nearest_before(checkpoints, target_time * StampGrain) # -1
    /\ faults' = faults - 1
    /\ Raise(t, <<>>, "seek", target_time, "CheckpointRestoreError")
    /\ UNCHANGED <<lifeVars, clockVars, storeVars, state, regVars, index_pos, rtree,
                   dbq, next_event, handler_calls, event_cap>>

\* seek up to the first await inside get_events
SeekBegin(t, target_time) ==
    /\ Idle(t)
    /\ snap' = SnapAtSeek(target_time)
    /\ LET ts == get_nearest_before(checkpoints, target_time * StampGrain)
           replay_from == IF ts = -1 THEN 0
                          ELSE checkpoints[ts].simulation_time \div StampGrain
       IN /\ state' = IF ts = -1 THEN EmptyWorldState ELSE checkpoints[ts].state_data
          /\ IF ~db_open
             THEN Raise(t, <<>>, "seek", target_time, "EventRetrievalError") /\ UNCHANGED dbq
             ELSE /\ stack' = [stack EXCEPT ![t] =
                        <<[Frame("seek", "query_exec", NoEvent, <<>>, target_time,
                                 replay_from, <<>>)
                            EXCEPT !.pre = [state |-> state, clock_time |-> clock_time]]>>]
                  /\ dbq' = Append(dbq, t)
                  /\ UNCHANGED <<cpu, result>>
    /\ UNCHANGED <<lifeVars, clockVars, storeVars, regVars, index_pos, rtree,
                   next_event, handler_calls, faults, event_cap>>

\* get_events: the SELECT is executed
DbSelect(t) ==
    /\ DbHead(t, "query_exec")
    /\ stack' = [stack EXCEPT ![t][1].pc = "query_fetch",
                              ![t][1].rows = SelectRows(log, Top(t).replay_from, Top(t).tgt)]
    /\ dbq' = Append(Tail(dbq), t)
    /\ UNCHANGED <<lifeVars, clockVars, storeVars, state, regVars, index_pos, rtree,
                   cpu, result, next_event, handler_calls, faults>>
    /\ UNCHANGED <<snap, event_cap>>

\* get_events: the store fails the SELECT -> EventRetrievalError
DbSelectFail(t) ==
    /\ DbHead(t, "query_exec")
    /\ faults > 0
    /\ faults' = faults - 1
    /\ dbq' = Tail(dbq)
    /\ Raise(t, Tail(stack[t]), Top(t).op, Top(t).tgt, "EventRetrievalError")
    /\ UNCHANGED <<lifeVars, clockVars, storeVars, state, regVars, index_pos, rtree,
                   next_event, handler_calls>>
    /\ UNCHANGED <<snap, event_cap>>

\* get_events: fetchall returns and the rows are turned into Events
DbFetch(t) ==
    /\ DbHead(t, "query_fetch")
    /\ dbq' = Tail(dbq)
    /\ IF RowsDecodeFails(Top(t).rows)
       THEN Raise(t, Tail(stack[t]), Top(t).op, Top(t).tgt, "EventRetrievalError")
       ELSE /\ stack' = [stack EXCEPT ![t][1].pc = "seek_replay"]
            /\ cpu' = t
            /\ UNCHANGED result
    /\ UNCHANGED <<lifeVars, clockVars, storeVars, state, regVars, index_pos, rtree,
                   next_event, handler_calls, faults>>
    /\ UNCHANGED <<snap, event_cap>>

\* `for event in events: self.state.apply_event(event)`; the loop stops at
\* the first event the reducer raises on
RECURSIVE Replay(_, _)
Replay(s, rows) ==
    IF rows = <<>> THEN s
    ELSE IF ReducerRaises(Head(rows)) THEN apply_event(s, Head(rows))
    ELSE Replay(apply_event(s, Head(rows)), Tail(rows))

ReplayRaises(rows) == \E i \in 1..Len(rows) : ReducerRaises(rows[i])

\* a seek that replays through the emit path and dispatches what it replays
SeekReplayDispatching(t) ==
    /\ At(t, "seek_replay")
    /\ state' = Replay(state, Top(t).rows)
    /\ handler_calls' = handler_calls \o
           [i \in 1..Len(Top(t).rows) |->
               [event_id |-> Top(t).rows[i].event_id, in_state |-> TRUE,
                in_log |-> TRUE]]
    /\ IF ReplayRaises(Top(t).rows)
       THEN Raise(t, Tail(stack[t]), Top(t).op, Top(t).tgt, "KeyError")
       ELSE /\ stack' = [stack EXCEPT ![t][1].pc = "clock_seek"]
            /\ UNCHANGED <<cpu, result>>
    /\ UNCHANGED <<lifeVars, clockVars, storeVars, regVars, index_pos, rtree, dbq,
                   next_event, faults, snap, event_cap>>

SeekReplay(t) ==
    /\ At(t, "seek_replay")
    /\ state' = Replay(state, Top(t).rows)
    /\ IF ReplayRaises(Top(t).rows)
       THEN Raise(t, Tail(stack[t]), Top(t).op, Top(t).tgt, "KeyError")
       ELSE /\ stack' = [stack EXCEPT ![t][1].pc = "clock_seek"]
            /\ UNCHANGED <<cpu, result>>
    /\ UNCHANGED <<lifeVars, clockVars, storeVars, regVars, index_pos, rtree, dbq,
                   next_event, handler_calls, faults>>
    /\ UNCHANGED <<snap, event_cap>>

Max0(x) == IF x < 0 THEN 0 ELSE x

\* SimulationClock.seek called at the end of Simulation.seek
ClockSeek(t) ==
    /\ At(t, "clock_seek")
    /\ IF ~is_running
       THEN /\ clock_time' = Max0(Top(t).tgt)
            /\ Return(t, Tail(stack[t]), Top(t).op, Top(t).tgt, "ok")
            /\ UNCHANGED <<is_running, clock_state, update_task, orphan_loop, lag>>
       ELSE IF update_task # "none"
       THEN /\ ClockHaltBody("paused")
            /\ stack' = [stack EXCEPT ![t][1].pc = "seek_clock_pause"]
            /\ cpu' = NoTask
            /\ UNCHANGED <<clock_time, orphan_loop, result, lag>>
       ELSE /\ clock_time' = Max0(Top(t).tgt)
            /\ ClockStartBody
            /\ stack' = [stack EXCEPT ![t][1].pc = "seek_clock_start"]
            /\ cpu' = NoTask
            /\ UNCHANGED <<orphan_loop, result>>
    /\ UNCHANGED <<lifeVars, storeVars, state, regVars, index_pos, rtree, dbq,
                   next_event, handler_calls, faults, time_scale>>
    /\ UNCHANGED <<snap, event_cap>>

\* SimulationClock.seek after the cancelled update task has ended
ClockSeekResume(t) ==
    /\ Waiting(t, "seek_clock_pause")
    /\ clock_time' = Max0(Top(t).tgt)
    /\ orphan_loop' = (orphan_loop \/ update_task = "live")
    /\ IF is_running
       THEN /\ update_task' = "none"
            /\ Return(t, Tail(stack[t]), Top(t).op, Top(t).tgt, "ok")
            /\ UNCHANGED <<is_running, clock_state, lag>>
       ELSE /\ ClockStartBody
            /\ stack' = [stack EXCEPT ![t][1].pc = "seek_clock_start"]
            /\ UNCHANGED <<cpu, result>>
    /\ UNCHANGED <<lifeVars, storeVars, state, regVars, index_pos, rtree, dbq,
                   next_event, handler_calls, faults, time_scale>>
    /\ UNCHANGED <<snap, event_cap>>

\* SimulationClock.start's sleep(0) is over; seek returns
ClockSeekDone(t) ==
    /\ Waiting(t, "seek_clock_start")
    /\ Return(t, Tail(stack[t]), Top(t).op, Top(t).tgt, "ok")
    /\ UNCHANGED <<lifeVars, clockVars, storeVars, state, regVars, index_pos, rtree,
                   dbq, next_event, handler_calls, faults>>
    /\ UNCHANGED <<snap, event_cap>>


\* ---------------------------------------------------------- Simulation.start
\* start up to the sleep(0) inside SimulationClock.start
StartBegin(t) ==
    /\ Idle(t)
    /\ ~sim_running
    /\ next_event < event_cap
    /\ sim_running' = TRUE
    /\ IF is_running
       THEN /\ stack' = [stack EXCEPT ![t] = <<Frame("start", "start_cont", NoEvent, <<>>, 0, 0, <<>>)>>]
            /\ cpu' = t
            /\ UNCHANGED clockVars
       ELSE /\ ClockStartBody
            /\ stack' = [stack EXCEPT ![t] = <<Frame("start", "start_yield", NoEvent, <<>>, 0, 0, <<>>)>>]
            /\ cpu' = NoTask
            /\ UNCHANGED <<clock_time, orphan_loop, time_scale>>
    /\ UNCHANGED <<initialized, movement_running, movement_tasks, movement_system,
                   storeVars, state, regVars,
                   index_pos, rtree, dbq, result, next_event, handler_calls, faults>>
    /\ UNCHANGED <<snap, event_cap>>

\* start after the clock: the movement loop, then simulation.started
StartCont(t) ==
    /\ At(t, "start_cont") \/ Waiting(t, "start_yield")
    /\ next_event < event_cap
    /\ movement_running' = (movement_running \/ movement_system)
    /\ movement_tasks' = IF movement_system /\ ~movement_running
                         THEN movement_tasks + 1 ELSE movement_tasks
    /\ EmitEntry(t, <<>>, "start", "simulation.started", [simulation_id |-> "sim", time_scale |-> 1])
    /\ UNCHANGED <<initialized, sim_running, movement_system, clockVars, storeVars,
                   state, regVars, index_pos, rtree, handler_calls, faults>>
    /\ UNCHANGED <<snap, event_cap>>

\* ---------------------------------------------------------- Simulation.pause
\* pause up to the await of the cancelled clock task
PauseBegin(t) ==
    /\ Idle(t)
    /\ sim_running
    /\ next_event < event_cap
    /\ sim_running' = FALSE
    /\ ClockHaltBody("paused")
    /\ IF update_task # "none"
       THEN /\ stack' = [stack EXCEPT ![t] = <<Frame("pause", "pause_wait", NoEvent, <<>>, 0, 0, <<>>)>>]
            /\ cpu' = NoTask
       ELSE /\ stack' = [stack EXCEPT ![t] = <<Frame("pause", "pause_cont", NoEvent, <<>>, 0, 0, <<>>)>>]
            /\ cpu' = t
    /\ UNCHANGED <<initialized, movement_running, movement_tasks, movement_system,
                   clock_time, orphan_loop, time_scale, lag, storeVars, state, regVars, index_pos, rtree, dbq, result,
                   next_event, handler_calls, faults>>
    /\ UNCHANGED <<snap, event_cap>>

\* pause after the clock: simulation.paused is emitted
PauseCont(t) ==
    /\ At(t, "pause_cont") \/ Waiting(t, "pause_wait")
    /\ next_event < event_cap
    /\ IF Top(t).pc = "pause_wait" THEN ClockHaltFinally
       ELSE UNCHANGED <<update_task, orphan_loop>>
    /\ EmitEntry(t, <<>>, "pause", "simulation.paused", [simulation_id |-> "sim", paused_at |-> clock_time])
    /\ UNCHANGED <<lifeVars, clock_time, is_running, clock_state, time_scale, lag,
                   storeVars, state, regVars, index_pos, rtree, handler_calls, faults>>
    /\ UNCHANGED <<snap, event_cap>>

\* ------------------------------------- SimulationClock, called on its own
\* the frame of a clock method; `pre` remembers the lifecycle at the call
ClockFrame(op, pc, tgt) ==
    [Frame(op, pc, NoEvent, <<>>, tgt, 0, <<>>)
        EXCEPT !.pre = [state |-> EmptyWorldState, clock_time |-> clock_time,
                        clock_state |-> clock_state]]

clockCallFrame == <<lifeVars, storeVars, state, regVars, index_pos, rtree, dbq,
                    next_event, handler_calls, faults, snap, event_cap>>

\* real time passes
WallAdvance ==
    /\ cpu = NoTask
    /\ lag < MaxLag
    /\ lag' = lag + 1
    /\ UNCHANGED <<clock_time, is_running, clock_state, update_task, orphan_loop,
                   time_scale, taskVars, clockCallFrame>>

\* a loop that _update_task no longer names wakes from its sleep after
\* is_running was cleared: it adds the elapsed time once more and ends
OrphanLastTick ==
    /\ cpu = NoTask
    /\ orphan_loop
    /\ ~is_running
    /\ clock_time + (lag + 1) * time_scale <= MaxTime
    /\ clock_time' = clock_time + (lag + 1) * time_scale
    /\ lag' = 0
    /\ orphan_loop' = FALSE
    /\ UNCHANGED <<is_running, clock_state, update_task, time_scale, taskVars,
                   clockCallFrame>>

\* SimulationClock.start, and the start inside resume (op names the method)
ClockStartAs(t, op) ==
    /\ IF is_running
       THEN /\ Return(t, <<>>, op, 0, "ok")
            /\ UNCHANGED clockVars
       ELSE /\ ClockStartBody
            /\ stack' = [stack EXCEPT ![t] = <<ClockFrame(op, "clock_start_yield", 0)>>]
            /\ UNCHANGED <<cpu, result, clock_time, orphan_loop, time_scale>>
    /\ UNCHANGED clockCallFrame

ClockStart(t) == Idle(t) /\ ClockStartAs(t, "clock.start")

\* start: the sleep(0) is over
ClockStartDone(t) ==
    /\ Waiting(t, "clock_start_yield")
    /\ Return(t, <<>>, Top(t).op, 0, "ok")
    /\ UNCHANGED <<clockVars, clockCallFrame>>

\* SimulationClock.pause ("paused") and stop ("stopped") up to the await
ClockHalt(t, op, st) ==
    /\ Idle(t)
    /\ ClockHaltBody(st)
    /\ IF update_task # "none"
       THEN /\ stack' = [stack EXCEPT ![t] = <<ClockFrame(op, "clock_halt_wait", 0)>>]
            /\ UNCHANGED <<cpu, result>>
       ELSE Return(t, <<>>, op, 0, "ok")
    /\ UNCHANGED <<clock_time, orphan_loop, time_scale, lag, clockCallFrame>>

ClockPause(t) == ClockHalt(t, "clock.pause", "paused")
ClockStop(t) == ClockHalt(t, "clock.stop", "stopped")

\* pause / stop: the cancelled task has ended
ClockHaltDone(t) ==
    /\ Waiting(t, "clock_halt_wait")
    /\ ClockHaltFinally
    /\ Return(t, <<>>, Top(t).op, 0, "ok")
    /\ UNCHANGED <<clock_time, is_running, clock_state, time_scale, lag,
                   clockCallFrame>>

\* SimulationClock.resume
ClockResume(t) ==
    /\ Idle(t)
    /\ IF clock_state = "paused"
       THEN ClockStartAs(t, "clock.resume")
       ELSE /\ Return(t, <<>>, "clock.resume", 0, "ok")
            /\ UNCHANGED <<clockVars, clockCallFrame>>

\* SimulationClock.seek is called; ClockSeek and its successors do the rest
ClockSeekCall(t, target_time) ==
    /\ Idle(t)
    /\ stack' = [stack EXCEPT ![t] = <<ClockFrame("clock.seek", "clock_seek", target_time)>>]
    /\ cpu' = t
    /\ UNCHANGED <<clockVars, clockCallFrame, dbq, result>>

\* ------------------------------------------------- Simulation life cycle
\* scales a caller may ask for
lifeCallFrame == <<storeVars, state, regVars, index_pos, rtree, dbq, next_event,
                   handler_calls, faults, snap, event_cap>>

\* a set_time_scale that takes any number
SetTimeScaleUnchecked(t, scale) ==
    /\ Idle(t)
    /\ next_event < event_cap
    /\ time_scale' = scale
    /\ EmitEntry(t, <<>>, "set_time_scale", "time.scaled",
                 [old_scale |-> time_scale, new_scale |-> scale])
    /\ UNCHANGED <<lifeVars, clock_time, is_running, clock_state, update_task,
                   orphan_loop, lag, storeVars, state, regVars, index_pos, rtree,
                   handler_calls, faults, snap, event_cap>>

\* Simulation.set_time_scale with SimulationClock.set_time_scale inside
SetTimeScale(t, scale) ==
    /\ Idle(t)
    /\ scale > 0 => next_event < event_cap
    /\ IF scale <= 0
       THEN /\ Raise(t, <<>>, "set_time_scale", scale, "ValueError")
            /\ UNCHANGED <<time_scale, dbq, next_event>>
       ELSE /\ time_scale' = scale
            /\ EmitEntry(t, <<>>, "set_time_scale", "time.scaled",
                         [old_scale |-> time_scale, new_scale |-> scale])
    /\ UNCHANGED <<lifeVars, clock_time, is_running, clock_state, update_task,
                   orphan_loop, lag, storeVars, state, regVars, index_pos, rtree,
                   handler_calls, faults, snap, event_cap>>

\* Simulation.start when _running is set: it returns at once
StartNoop(t) ==
    /\ Idle(t)
    /\ sim_running
    /\ Return(t, <<>>, "start", 0, "ok")
    /\ UNCHANGED <<lifeVars, clockVars, lifeCallFrame>>

\* Simulation.resume, up to the sleep(0) of the clock's start
Resume(t) ==
    /\ Idle(t)
    /\ sim_running' = TRUE
    /\ IF clock_state = "paused" /\ ~is_running
       THEN /\ ClockStartBody
            /\ stack' = [stack EXCEPT ![t] =
                  <<Frame("resume", "clock_start_yield", NoEvent, <<>>, 0, 0, <<>>)>>]
            /\ UNCHANGED <<cpu, result, clock_time, orphan_loop, time_scale>>
       ELSE /\ Return(t, <<>>, "resume", 0, "ok")
            /\ UNCHANGED clockVars
    /\ UNCHANGED <<initialized, movement_running, movement_tasks, movement_system,
                   lifeCallFrame>>

\* Simulation.stop past its _running test, to the await in
\* MovementSystem.stop or, with no loop to stop, on to clock.stop
StopBeginAs(t, op) ==
    /\ sim_running' = FALSE
    /\ IF movement_system /\ movement_running
       THEN /\ movement_running' = FALSE
            /\ stack' = [stack EXCEPT ![t] =
                  <<Frame(op, "stop_move_wait", NoEvent, <<>>, 0, 0, <<>>)>>]
            /\ cpu' = NoTask
       ELSE /\ UNCHANGED movement_running
            /\ stack' = [stack EXCEPT ![t] =
                  <<Frame(op, "stop_clock", NoEvent, <<>>, 0, 0, <<>>)>>]
            /\ cpu' = t
    /\ UNCHANGED <<initialized, movement_tasks, movement_system, clockVars,
                   result, lifeCallFrame>>

\* Simulation.stop
Stop(t) ==
    /\ Idle(t)
    /\ IF sim_running THEN StopBeginAs(t, "stop")
       ELSE /\ Return(t, <<>>, "stop", 0, "ok")
            /\ UNCHANGED <<lifeVars, clockVars, lifeCallFrame>>

\* Simulation.shutdown
Shutdown(t) ==
    /\ Idle(t)
    /\ IF sim_running THEN StopBeginAs(t, "shutdown")
       ELSE /\ db_open' = FALSE
            /\ initialized' = FALSE
            /\ Return(t, <<>>, "shutdown", 0, "ok")
            /\ UNCHANGED <<sim_running, movement_running, movement_tasks,
                           movement_system, clockVars, log, checkpoints, state,
                           regVars, index_pos, rtree, dbq, next_event, handler_calls,
                           faults, snap, event_cap>>

\* stop returns; inside shutdown the store is closed after it
StopReturn(t) ==
    /\ Return(t, <<>>, Top(t).op, 0, "ok")
    /\ IF Top(t).op = "shutdown"
       THEN db_open' = FALSE /\ initialized' = FALSE
       ELSE UNCHANGED <<db_open, initialized>>

\* the movement loop is gone; SimulationClock.stop up to its await
StopClock(t) ==
    /\ Waiting(t, "stop_move_wait") \/ At(t, "stop_clock")
    /\ movement_tasks' = IF Top(t).pc = "stop_move_wait"
                         THEN movement_tasks - 1 ELSE movement_tasks
    /\ ClockHaltBody("stopped")
    /\ IF update_task # "none"
       THEN /\ stack' = [stack EXCEPT ![t][1].pc = "stop_clock_wait"]
            /\ cpu' = NoTask
            /\ UNCHANGED <<result, db_open, initialized>>
       ELSE StopReturn(t)
    /\ UNCHANGED <<sim_running, movement_running, movement_system, clock_time,
                   orphan_loop, time_scale, lag, log, checkpoints, state, regVars,
                   index_pos, rtree, dbq, next_event, handler_calls, faults, snap,
                   event_cap>>

\* SimulationClock.stop: the cancelled update task has ended
StopDone(t) ==
    /\ Waiting(t, "stop_clock_wait")
    /\ ClockHaltFinally
    /\ StopReturn(t)
    /\ UNCHANGED <<sim_running, movement_running, movement_tasks, movement_system,
                   clock_time, is_running, clock_state, time_scale, lag, log,
                   checkpoints, state, regVars, index_pos, rtree, dbq, next_event,
                   handler_calls, faults, snap, event_cap>>

\* ------------------------------------- EventHandlerRegistry, called on its own
\* coroutines of the user that are subscribed as handlers
UserHandlers == {"h1", "h2"}

\* the subscriptions of user handlers, as <<kind or "*", position>>
Registrations ==
    {p \in UNION {{<<k, i>> : i \in 1..Len(handlers[k])} : k \in DOMAIN handlers} :
        handlers[p[1]][p[2]] \in UserHandlers}
    \cup {<<"*", i>> : i \in {j \in 1..Len(wildcard_handlers) :
                                 wildcard_handlers[j] \in UserHandlers}}

\* events a caller hands to dispatch
DispatchInputs ==
    { <<"entity.created", [entity_id |-> "e1", type |-> "infantry", position |-> Origin]>>,
      <<CustomKind, [note |-> "x"]>> }

registryFrame == <<lifeVars, clockVars, storeVars, state, index_pos, rtree, faults, dbq,
                   snap, event_cap>>

\* EventHandlerRegistry.on
On(kind, h) ==
    /\ cpu = NoTask
    /\ Cardinality(Registrations) < MaxHandlers
    /\ handlers' = MapPut(handlers, kind,
           (IF kind \in DOMAIN handlers THEN handlers[kind] ELSE <<>>) \o <<h>>)
    /\ UNCHANGED <<registryFrame, wildcard_handlers, taskVars, next_event,
                   handler_calls>>

\* EventHandlerRegistry.on_all
OnAll(h) ==
    /\ cpu = NoTask
    /\ Cardinality(Registrations) < MaxHandlers
    /\ wildcard_handlers' = Append(wildcard_handlers, h)
    /\ UNCHANGED <<registryFrame, handlers, taskVars, next_event, handler_calls>>

\* EventHandlerRegistry.off: list.remove takes the first occurrence away
Off(kind, h) ==
    /\ cpu = NoTask
    /\ kind \in DOMAIN handlers
    /\ h \in Range(handlers[kind])
    /\ LET hs == handlers[kind]
           i == CHOOSE j \in 1..Len(hs) : hs[j] = h /\ \A k \in 1..(j - 1) : hs[k] # h
       IN handlers' = [handlers EXCEPT ![kind] =
                          SubSeq(hs, 1, i - 1) \o SubSeq(hs, i + 1, Len(hs))]
    /\ UNCHANGED <<registryFrame, wildcard_handlers, taskVars, next_event,
                   handler_calls>>

\* EventHandlerRegistry.off_all
OffAll(h) ==
    /\ cpu = NoTask
    /\ h \in Range(wildcard_handlers)
    /\ LET hs == wildcard_handlers
           i == CHOOSE j \in 1..Len(hs) : hs[j] = h /\ \A k \in 1..(j - 1) : hs[k] # h
       IN wildcard_handlers' = SubSeq(hs, 1, i - 1) \o SubSeq(hs, i + 1, Len(hs))
    /\ UNCHANGED <<registryFrame, handlers, taskVars, next_event, handler_calls>>

\* EventHandlerRegistry.dispatch up to its loop.  In the frame, `rows` keeps
\* the list the loop runs over and `tgt` the id of the event (history).
Dispatch(t, kind, data, fail_fast) ==
    /\ Idle(t)
    /\ next_event < event_cap
    /\ next_event' = next_event + 1
    /\ LET ev == NewEvent(kind, data)
           op == IF fail_fast THEN "dispatch_ff" ELSE "dispatch"
           hs == all_handlers(kind)
       IN IF hs = <<>>
          THEN Return(t, <<>>, op, ev.event_id, "ok")
          ELSE /\ stack' = [stack EXCEPT ![t] =
                     <<Frame(op, "dispatch", ev, hs, ev.event_id, 0, hs)>>]
               /\ cpu' = t
               /\ UNCHANGED result
    /\ UNCHANGED <<registryFrame, regVars, handler_calls>>

\* the record of one invocation of a user handler
Call(h, ev, raised) == [event_id |-> ev.event_id, handler |-> h, raised |-> raised]

\* a handler that goes on to the next one whatever fail_fast says
UserHandlerLenient(t, h, how) ==
    /\ NextHandler(t, h)
    /\ h \in UserHandlers
    /\ handler_calls' = Append(handler_calls, Call(h, Top(t).ev, how = "raise"))
    /\ IF how = "suspend"
       THEN /\ stack' = [stack EXCEPT ![t][1].pc = "handler_wait"]
            /\ cpu' = NoTask
            /\ UNCHANGED result
       ELSE HandlerDone(t) /\ UNCHANGED <<cpu, result>>
    /\ UNCHANGED <<registryFrame, regVars, next_event>>

\* a dispatch that lets the exception of a handler out whatever fail_fast says
UserHandlerStrict(t, h, how) ==
    /\ NextHandler(t, h)
    /\ h \in UserHandlers
    /\ handler_calls' = Append(handler_calls, Call(h, Top(t).ev, how = "raise"))
    /\ IF how = "suspend"
       THEN /\ stack' = [stack EXCEPT ![t][1].pc = "handler_wait"]
            /\ cpu' = NoTask
            /\ UNCHANGED result
       ELSE IF how = "raise"
       THEN Raise(t, Tail(stack[t]), Top(t).op, Top(t).tgt, "HandlerExecutionError")
       ELSE HandlerDone(t) /\ UNCHANGED <<cpu, result>>
    /\ UNCHANGED <<registryFrame, regVars, next_event>>

\* `await handler(event)` for a user handler that returns, suspends first, or
\* raises; what dispatch does with the exception depends on fail_fast
UserHandler(t, h, how) ==
    /\ NextHandler(t, h)
    /\ h \in UserHandlers
    /\ handler_calls' = Append(handler_calls, Call(h, Top(t).ev, how = "raise"))
    /\ IF how = "suspend"
       THEN /\ stack' = [stack EXCEPT ![t][1].pc = "handler_wait"]
            /\ cpu' = NoTask
            /\ UNCHANGED result
       ELSE IF how = "raise" /\ Top(t).op = "dispatch_ff"
       THEN Raise(t, Tail(stack[t]), Top(t).op, Top(t).tgt, "HandlerExecutionError")
       ELSE HandlerDone(t) /\ UNCHANGED <<cpu, result>>
    /\ UNCHANGED <<registryFrame, regVars, next_event>>

\* dispatch called by itself: the loop is over and dispatch returns
DispatchReturn(t) ==
    /\ At(t, "dispatch")
    /\ Top(t).hs = <<>>
    /\ Top(t).op \in {"dispatch", "dispatch_ff"}
    /\ Return(t, Tail(stack[t]), Top(t).op, Top(t).tgt, "ok")
    /\ UNCHANGED <<registryFrame, regVars, next_event, handler_calls>>

\* ----------------------------------------- SpatialIndex, called on its own
\* positions a caller passes
IndexPoints == {<<0, 0, 0>>, <<1, 0, 0>>, <<0, 0, 1>>}

\* insert, update or remove, called with the key object or with another
IndexCall(op, id, obj, position) ==
    /\ cpu = NoTask
    /\ IndexBecomes(CASE op = "insert" -> IndexInsert(Index, id, obj, position)
                      [] op = "update" -> IndexUpdate(Index, id, obj, position)
                      [] op = "remove" -> IndexRemove(Index, id, obj))
    /\ UNCHANGED <<lifeVars, clockVars, storeVars, state, regVars, taskVars,
                   next_event, handler_calls, faults, snap, event_cap>>

\* ------------------------- EventStore and CheckpointStore, called on their own
\* EventStore.append_batch up to its await of executemany
AppendBatch(t, events) ==
    /\ Idle(t)
    /\ LET fresh == {events[i].event_id : i \in 1..Len(events)} \ (0..next_event) IN
         /\ next_event + Cardinality(fresh) <= event_cap
         /\ next_event' = next_event + Cardinality(fresh)
    /\ IF events = <<>>
       THEN Return(t, <<>>, "append_batch", 0, "ok") /\ UNCHANGED dbq
       ELSE IF ~db_open
       THEN Raise(t, <<>>, "append_batch", 0, "EventPersistenceError") /\ UNCHANGED dbq
       ELSE /\ stack' = [stack EXCEPT ![t] =
                  <<Frame("append_batch", "batch_exec", NoEvent, <<>>, 0, 0, events)>>]
            /\ cpu' = NoTask
            /\ dbq' = Append(dbq, t)
            /\ UNCHANGED result
    /\ UNCHANGED <<emitFrame, snap, event_cap>>

\* EventStore.append_batch from executemany on.  executemany runs the INSERT
\* once per event inside one transaction that nothing rolls back: the rows
\* ahead of a refused one (its event_id is in the table) stay in the table
\* as the connection sees it, and the next commit keeps them.
BatchStep(t) ==
    LET rows == Top(t).rows
        clash == {i \in 1..Len(rows) :
                    \/ \E j \in 1..Len(log) : log[j].event_id = rows[i].event_id
                    \/ \E j \in 1..(i - 1) : rows[j].event_id = rows[i].event_id}
        first == CHOOSE i \in clash : \A j \in clash : i <= j
    IN /\ DbHead(t, "batch_exec") \/ DbHead(t, "batch_commit")
       /\ IF Top(t).pc = "batch_commit"
          THEN /\ dbq' = Tail(dbq)
               /\ Return(t, Tail(stack[t]), "append_batch", 0, "ok")
               /\ UNCHANGED log
          ELSE IF clash = {}
          THEN /\ log' = log \o rows
               /\ stack' = [stack EXCEPT ![t][1].pc = "batch_commit"]
               /\ dbq' = Append(Tail(dbq), t)
               /\ UNCHANGED <<cpu, result>>
          ELSE /\ log' = log \o SubSeq(rows, 1, first - 1)
               /\ dbq' = Tail(dbq)
               /\ Raise(t, Tail(stack[t]), "append_batch", 0, "EventPersistenceError")
       /\ UNCHANGED <<lifeVars, clockVars, db_open, checkpoints, state, regVars,
                      index_pos, rtree, next_event, handler_calls, faults, snap, event_cap>>

\* EventStore.get_events(from_time, to_time, event_types) on a table `rows`:
\* to_time = -1 stands for None; event_types is [given, kinds], and the
\* test `if event_types:` passes for a list that is given and not empty
get_events(rows, from_time, to_time, event_types) ==
    LET picked == {e \in Range(rows) :
                     /\ e.simulation_time >= from_time
                     /\ to_time # -1 => e.simulation_time <= to_time
                     /\ (event_types.given /\ event_types.kinds # {})
                           => e.event_type \in event_types.kinds}
        sorted == SortRows(picked)
    IN IF ~db_open \/ RowsDecodeFails(sorted)
       THEN [raised |-> TRUE, events |-> <<>>]
       ELSE [raised |-> FALSE, events |-> sorted]

\* CheckpointStore.create_checkpoint(simulation_time, state)
CreateCheckpoint(t, simulation_time) ==
    /\ Idle(t)
    /\ checkpoints' = MapPut(checkpoints, FileStamp(simulation_time),
                             CheckpointCreate(simulation_time, state))
    /\ Return(t, <<>>, "create_checkpoint", simulation_time, "ok")
    /\ UNCHANGED <<lifeVars, clockVars, db_open, log, state, regVars, index_pos, rtree,
                   dbq, next_event, handler_calls, faults, snap, event_cap>>

\* CheckpointStore.cleanup_old_checkpoints(keep_count): the checkpoints are
\* listed by simulation_time and those of the slice [:-keep_count] deleted,
\* which for keep_count = 0 is the empty slice [:0]
Cleanup(t, keep_count) ==
    /\ Idle(t)
    /\ LET n == Cardinality(DOMAIN checkpoints)
           doomed == IF n <= keep_count \/ keep_count = 0 THEN 0 ELSE n - keep_count
           Older(k) == {j \in DOMAIN checkpoints :
                          checkpoints[j].simulation_time < checkpoints[k].simulation_time}
           to_delete == {k \in DOMAIN checkpoints : Cardinality(Older(k)) < doomed}
       IN checkpoints' = [k \in DOMAIN checkpoints \ to_delete |-> checkpoints[k]]
    /\ Return(t, <<>>, "cleanup", keep_count, "ok")
    /\ UNCHANGED <<lifeVars, clockVars, db_open, log, state, regVars, index_pos, rtree,
                   dbq, next_event, handler_calls, faults, snap, event_cap>>

\* ------------------------------------------------------------- specification
\* steps of an emit in progress
EmitSteps(t) ==
    \/ DbInsert(t)
    \/ DbCommit(t)
    \/ EmitApply(t)
    \/ HandleEntityCreated(t)
    \/ HandleEntityMoved(t)
    \/ HandleEntityDestroyed(t)
    \/ EmitCheckpoint(t)

\* steps of a seek in progress
SeekSteps(t) ==
    \/ DbSelect(t)
    \/ DbFetch(t)
    \/ SeekReplay(t)
    \/ ClockSeek(t)
    \/ ClockSeekResume(t)
    \/ ClockSeekDone(t)

\* the entity operations of the control surface
EntityCalls(t) ==
    \/ \E p \in Positions : CreateEntity(t, p)
    \/ \E id \in EntityIds : DestroyEntity(t, id)
    \/ \E id \in EntityIds, v \in Velocities : SetEntityVelocity(t, id, v)

\* One caller at a time, no I/O fault, no user listener: the control surface
\* with the clock and the movement system running in the background.
Next ==
    \/ Observe
    \/ Initialize
    \/ Tick
    \/ MovementTick
    \/ \E in \in PassingInputs \cup InvalidInputs : EmitEvent("t1", in[1], in[2])
    \/ CreateMarker("t1")
    \/ EntityCalls("t1")
    \/ \E target \in SeekTargets : SeekBegin("t1", target)
    \/ StartBegin("t1")
    \/ StartCont("t1")
    \/ PauseBegin("t1")
    \/ PauseCont("t1")
    \/ EmitSteps("t1")
    \/ SeekSteps("t1")

Spec == Init /\ [][Next]_vars

\* One caller at a time with a user listener subscribed and the I/O faults of
\* the store: a refused INSERT, a failed SELECT, an unreadable checkpoint.
NextFault ==
    \/ Initialize
    \/ AddEventListener
    \/ Tick
    \/ \E in \in InvalidInputs : EmitEvent("t1", in[1], in[2])
    \/ CreateMarker("t1")
    \/ \E p \in Positions : CreateEntity("t1", p)
    \/ \E target \in SeekTargets : SeekBegin("t1", target)
    \/ \E target \in SeekTargets : SeekCheckpointFail("t1", target)
    \/ StartBegin("t1")
    \/ StartCont("t1")
    \/ DbInsert("t1")
    \/ DbCommit("t1")
    \/ EmitApply("t1")
    \/ HandleEntityCreated("t1")
    \/ EmitCheckpoint("t1")
    \/ ListenerReturn("t1")
    \/ DbInsertFail("t1")
    \/ SeekSteps("t1")
    \/ DbSelectFail("t1")

SpecFault == Init /\ [][NextFault]_vars

\* Two tasks share the simulation, and the user listener may return at once,
\* suspend, or emit an event of its own.
NextConc ==
    \/ Initialize
    \/ AddEventListener
    \/ Tick
    \/ StartBegin("t1")
    \/ StartCont("t1")
    \/ \E target \in SeekTargets : SeekBegin("t2", target)
    \/ \E t \in Tasks :
        \/ CreateMarker(t)
        \/ DbInsert(t)
        \/ DbCommit(t)
        \/ EmitApply(t)
        \/ EmitCheckpoint(t)
        \/ ListenerReturn(t)
        \/ ListenerSuspend(t)
        \/ ListenerResume(t)
        \/ ListenerEmit(t)
        \/ SeekSteps(t)

SpecConc == Init /\ [][NextConc]_vars

\* A longer forward run of one caller, watched by an observer: entities
\* are created and set moving, events of a user kind are emitted, and the
\* caller seeks back.
InitRewind == InitWith(RewindEvents)

NextRewind ==
    \/ Observe
    \/ Initialize
    \/ Tick
    \/ StartBegin("t1")
    \/ StartCont("t1")
    \/ EmitEvent("t1", CustomKind, [note |-> "x"])
    \/ \E p \in Positions : CreateEntity("t1", p)
    \/ \E target \in SeekTargets : SeekBegin("t1", target)
    \/ DbInsert("t1")
    \/ DbCommit("t1")
    \/ EmitApply("t1")
    \/ HandleEntityCreated("t1")
    \/ EmitCheckpoint("t1")
    \/ SeekSteps("t1")

SpecRewind == InitRewind /\ [][NextRewind]_vars

\* The clock on its own, driven by one caller, with real time passing.
NextClock ==
    \/ Tick
    \/ WallAdvance
    \/ ClockStart("t1")
    \/ ClockStartDone("t1")
    \/ ClockPause("t1")
    \/ ClockStop("t1")
    \/ ClockHaltDone("t1")
    \/ ClockResume("t1")
    \/ \E target \in ClockTargets : ClockSeekCall("t1", target)
    \/ ClockSeek("t1")
    \/ ClockSeekResume("t1")
    \/ ClockSeekDone("t1")

SpecClock == Init /\ [][NextClock]_vars

\* The clock on its own with two callers whose calls interleave at their
\* suspension points.
NextClockConc ==
    \/ Tick
    \/ WallAdvance
    \/ OrphanLastTick
    \/ \E t \in Tasks :
        \/ ClockStart(t)
        \/ ClockStartDone(t)
        \/ ClockPause(t)
        \/ ClockStop(t)
        \/ ClockHaltDone(t)
        \/ ClockResume(t)
        \/ \E target \in ClockTargets : ClockSeekCall(t, target)
        \/ ClockSeek(t)
        \/ ClockSeekResume(t)
        \/ ClockSeekDone(t)

SpecClockConc == Init /\ [][NextClockConc]_vars

\* how often initialize has run
\* The life cycle of the simulation as one caller drives it.
NextLife ==
    \/ /\ handlers # EmptyMap => Len(handlers["entity.created"]) < MaxInits
       /\ Initialize
    \/ Tick
    \/ StartBegin("t1")
    \/ StartNoop("t1")
    \/ StartCont("t1")
    \/ PauseBegin("t1")
    \/ PauseCont("t1")
    \/ Resume("t1")
    \/ ClockStartDone("t1")
    \/ Stop("t1")
    \/ Shutdown("t1")
    \/ StopClock("t1")
    \/ StopDone("t1")
    \/ \E scale \in {-1, 0, 1, 2} : SetTimeScale("t1", scale)
    \/ DbInsert("t1")
    \/ DbCommit("t1")
    \/ EmitApply("t1")
    \/ EmitCheckpoint("t1")

SpecLife == InitRewind /\ [][NextLife]_vars

\* entity events a caller hands to emit_event itself, all of them valid:
\* the id "e1" is created with either type label, moved and destroyed
\* One caller emits entity events of its own making.
NextTypes ==
    \/ Initialize
    \/ \E in \in
          { <<"entity.created", [entity_id |-> "e1", type |-> ty, position |-> Origin]>>
              : ty \in EntityTypeLabels }
          \cup { <<"entity.moved", [entity_id |-> "e1", velocity |-> <<1, 0, 0>>]>>,
                 <<"entity.destroyed", [entity_id |-> "e1"]>> } :
          EmitEvent("t1", in[1], in[2])
    \/ EmitSteps("t1")

SpecTypes == InitRewind /\ [][NextTypes]_vars

\* The handler registry on its own: handlers are subscribed, and one caller
\* dispatches events with and without fail_fast.
NextDispatch ==
    \/ Initialize
    \/ \E in \in DispatchInputs, h \in UserHandlers : On(in[1], h)
    \/ \E h \in UserHandlers : OnAll(h)
    \/ \E in \in DispatchInputs, ff \in BOOLEAN : Dispatch("t1", in[1], in[2], ff)
    \/ \E h \in UserHandlers, how \in {"return", "suspend", "raise"} :
          UserHandler("t1", h, how)
    \/ HandleEntityCreated("t1")
    \/ ListenerResume("t1")
    \/ DispatchReturn("t1")

SpecDispatch == Init /\ [][NextDispatch]_vars

\* One caller emits events and dispatches some itself (without fail_fast)
\* to user handlers, subscribed beforehand, that may return, suspend or raise.
NextHandlers ==
    \/ Initialize
    \/ (next_event = 0 /\ \E in \in DispatchInputs, h \in UserHandlers : On(in[1], h))
    \/ (next_event = 0 /\ \E h \in UserHandlers : OnAll(h))
    \/ Tick
    \/ StartBegin("t1")
    \/ StartCont("t1")
    \/ CreateEntity("t1", Origin)
    \/ EmitEvent("t1", CustomKind, [note |-> "x"])
    \/ Dispatch("t1", CustomKind, [note |-> "x"], FALSE)
    \/ DbInsert("t1")
    \/ DbCommit("t1")
    \/ EmitApply("t1")
    \/ HandleEntityCreated("t1")
    \/ \E h \in UserHandlers, how \in {"return", "suspend", "raise"} :
          UserHandler("t1", h, how)
    \/ ListenerResume("t1")
    \/ EmitCheckpoint("t1")
    \/ DispatchReturn("t1")

SpecHandlers == Init /\ [][NextHandlers]_vars

\* The registry on its own, with handlers subscribed and unsubscribed while
\* a dispatch is suspended in one of its handlers.
NextSubs ==
    \/ \E h \in UserHandlers : On(CustomKind, h)
    \/ \E h \in UserHandlers : OnAll(h)
    \/ \E h \in UserHandlers : Off(CustomKind, h)
    \/ \E h \in UserHandlers : OffAll(h)
    \/ Dispatch("t1", CustomKind, [note |-> "x"], FALSE)
    \/ \E h \in UserHandlers, how \in {"return", "suspend"} :
          UserHandler("t1", h, how)
    \/ ListenerResume("t1")
    \/ DispatchReturn("t1")

SpecSubs == Init /\ [][NextSubs]_vars

\* One caller creates entities and sets them moving, more than once, with
\* the clock and the movement loop running.
NextMove ==
    \/ Initialize
    \/ Tick
    \/ MovementTick
    \/ StartBegin("t1")
    \/ StartCont("t1")
    \/ CreateEntity("t1", Origin)
    \/ \E id \in EntityIds : DestroyEntity("t1", id)
    \/ \E id \in EntityIds, v \in Velocities \cup {Origin} : SetEntityVelocity("t1", id, v)
    \/ EmitSteps("t1")

SpecMove == InitRewind /\ [][NextMove]_vars

\* The whole control surface in the hands of one caller: emit, the entity
\* operations, seek, and the life cycle with set_time_scale.
NextSurface ==
    \/ Initialize
    \/ Tick
    \/ CreateMarker("t1")
    \/ EntityCalls("t1")
    \/ \E target \in SeekTargets : SeekBegin("t1", target)
    \/ StartBegin("t1")
    \/ StartNoop("t1")
    \/ StartCont("t1")
    \/ PauseBegin("t1")
    \/ PauseCont("t1")
    \/ Resume("t1")
    \/ ClockStartDone("t1")
    \/ Stop("t1")
    \/ StopClock("t1")
    \/ StopDone("t1")
    \/ \E scale \in {0, 2} : SetTimeScale("t1", scale)
    \/ EmitSteps("t1")
    \/ SeekSteps("t1")

SpecSurface == Init /\ [][NextSurface]_vars

\* a position with fewer than three coordinates, which the validator lets
\* through and the reducer stores as it is
ShortPosition == <<1>>

\* Entities created and destroyed by one caller, with well-formed and with
\* short positions; no seek.
NextShape ==
    \/ Initialize
    \/ \E p \in Positions \cup {ShortPosition} : CreateEntity("t1", p)
    \/ \E id \in EntityIds : DestroyEntity("t1", id)
    \/ DbInsert("t1")
    \/ DbCommit("t1")
    \/ EmitApply("t1")
    \/ HandleEntityCreated("t1")
    \/ HandleEntityDestroyed("t1")
    \/ EmitCheckpoint("t1")

SpecShape == InitRewind /\ [][NextShape]_vars

\* The event store and the checkpoint store in the hands of one caller.
NextStore ==
    \/ Initialize
    \* the batches: one or two events the caller has just built, the first
    \* of them possibly a second time, or followed by an event of the table
    \/ LET New(n, kind, time) ==
               [event_id |-> next_event + n, event_type |-> kind,
                simulation_time |-> time, created_at |-> next_event + n,
                data |-> EmptyMap]
           pairs == {<<New(1, ka, ta), New(2, kb, tb)>> :
                        ka \in {"marker.created", CustomKind}, kb \in {"time.scaled"},
                        ta \in {0, 1}, tb \in {0, 1}}
       IN \E events \in {<<>>}
                \cup {<<p[1]>> : p \in pairs}
                \cup pairs
                \cup {<<p[1], p[2], p[1]>> : p \in pairs}
                \cup {<<p[1], log[i]>> : p \in pairs, i \in 1..Len(log)} :
            AppendBatch("t1", events)
    \/ BatchStep("t1")
    \/ \E ft \in 0..(MaxTime * StampGrain) : CreateCheckpoint("t1", ft)
    \/ \E keep_count \in 0..(MaxTime + 1) : Cleanup("t1", keep_count)

SpecStore == InitRewind /\ [][NextStore]_vars

\* The spatial index in the hands of one caller.
SpecIndex ==
    Init /\ [][\E op \in {"insert", "update", "remove"}, id \in EntityIds,
                  obj \in {"key", "other"}, position \in IndexPoints :
                   IndexCall(op, id, obj, position)]_vars

TypeOK ==
    /\ clock_time \in Times
    /\ cpu \in Tasks \cup {NoTask}
    /\ next_event \in 0..event_cap
    /\ Len(log) <= event_cap

\* --------------------------------------------------------------- properties
\* the four fields of a WorldState
CoreState(s) ==
    [simulation_time |-> s.simulation_time, event_count |-> s.event_count,
     entities |-> s.entities, entity_types |-> s.entity_types]

\* no call is in progress and the last call to end was `op`
Finished(op) ==
    /\ cpu = NoTask
    /\ \A t \in Tasks : stack[t] = <<>>
    /\ result.op = op

SeekOk == Finished("seek") /\ result.res = "ok"

\* this step ends a call of kind `op` with the exception `exc`
Raised(op, exc) == result' # result /\ result'.op = op /\ result'.res = exc

LogIds == {log[i].event_id : i \in 1..Len(log)}

\* C1: after seek(target) has returned, the world state equals the fold of
\* all logged events with time in [0, target], in canonical order, over an
\* empty WorldState.
C1_CheckpointEquivalence ==
    SeekOk =>
        CoreState(state) =
            CoreState(Replay(EmptyWorldState, SelectRows(log, 0, result.arg)))

\* C2: after a forward run observed at time t, later events and seek(t), the
\* entities are those seen at t, each with the record it had.
C2_RewindReproducesPast ==
    (snap.phase = "sought" /\ Finished("seek")) =>
        /\ DOMAIN state.entities = DOMAIN snap.entities
        /\ \A id \in DOMAIN snap.entities :
              /\ id \in DOMAIN state.entities
              /\ state.entities[id].position = snap.entities[id].position
              /\ state.entities[id].velocity = snap.entities[id].velocity
              /\ state.entities[id].last_update_time =
                     snap.entities[id].last_update_time

\* the world state and clock time when the seek of task t was called
PreSeek(t) ==
    IF stack[t] # <<>> /\ Top(t).op = "seek" THEN Top(t).pre
    ELSE [state |-> state, clock_time |-> clock_time]

\* C3: a seek that fails raises TimeSeekError and leaves the world state and
\* the clock time as they were when it was called.
C3_SeekFailureAtomic ==
    [][\A t \in Tasks :
          (result' # result /\ result'.task = t /\ result'.op = "seek"
              /\ result'.res # "ok")
          => /\ result'.res = "TimeSeekError"
             /\ state' = PreSeek(t).state
             /\ clock_time' = PreSeek(t).clock_time]_vars

InSeek(t) == stack[t] # <<>> /\ Top(t).op = "seek"

\* C4: no step from the call of seek to its end appends to the log or
\* invokes a handler, be it a user listener or a handler of the spatial index.
C4_SeekFrame ==
    [][(\E t \in Tasks : InSeek(t) \/ InSeek(t)'
            \/ (result' # result /\ result'.op = "seek"))
       => (log' = log /\ handler_calls' = handler_calls
              /\ index_pos' = index_pos)]_vars

\* a seek over a non-empty log has returned, with a listener subscribed that
\* was called by the emits before it
C4_Witness ==
    /\ SeekOk
    /\ wildcard_handlers # <<>>
    /\ handler_calls # <<>>
    /\ state.event_count > 0

\* C5: after seek has returned, the spatial index holds exactly the live
\* entities of the world state, those at rest at their stored position.
C5_IndexMatchesState ==
    SeekOk =>
        /\ DOMAIN index_pos = DOMAIN state.entities
        /\ \A id \in DOMAIN index_pos \cap DOMAIN state.entities :
              state.entities[id].velocity = Origin
              => index_pos[id] = state.entities[id].position

\* the payload of a logged event of a kind with a schema has the required
\* keys, and a str where the schema asks for one
PayloadOk(e) ==
    /\ e.event_type = "marker.created" =>
          "label" \in DOMAIN e.data /\ e.data.label # NotAStr
    /\ e.event_type = "entity.created" =>
          /\ {"entity_id", "type"} \subseteq DOMAIN e.data
          /\ e.data.entity_id # NotAStr
          /\ e.data.type # NotAStr

\* C6: a payload that fails validation never reaches the log, and the emit
\* that raises EventValidationError changes neither the log, the world
\* state, the handler calls nor the checkpoints.
C6_ValidationNoEffect ==
    /\ [](\A i \in 1..Len(log) : PayloadOk(log[i]))
    /\ [][Raised("emit", "EventValidationError")
          => UNCHANGED <<log, state, handler_calls, checkpoints, index_pos>>]_vars

\* an emit was refused by the validator after events had been logged and
\* dispatched
C6_Witness ==
    /\ Finished("emit")
    /\ result.res = "EventValidationError"
    /\ log # <<>>
    /\ handler_calls # <<>>

\* C7: an event the log did not take is never applied, dispatched or
\* checkpointed, and the emit that raises EventPersistenceError changes
\* neither the world state, the handler calls nor the checkpoints.
C7_PersistenceFailureNoEffect ==
    /\ [](/\ Range(state.applied) \subseteq LogIds
          /\ \A i \in 1..Len(handler_calls) : handler_calls[i].event_id \in LogIds
          /\ \A ts \in DOMAIN checkpoints :
                Range(checkpoints[ts].state_data.applied) \subseteq LogIds)
    /\ [][Raised("emit", "EventPersistenceError")
          => UNCHANGED <<log, state, handler_calls, checkpoints, index_pos>>]_vars

\* the open store refused the INSERT of an emit after earlier events had
\* been logged
C7_Witness ==
    /\ Finished("emit")
    /\ result.res = "EventPersistenceError"
    /\ db_open
    /\ faults < MaxFaults
    /\ log # <<>>

\* the emit frames now on the stacks
EmitFrames ==
    UNION {{stack[t][i] : i \in {j \in 1..Len(stack[t]) : stack[t][j].ev # NoEvent}}
           : t \in Tasks}

Logged(f) == f.pc # "append_exec"
Applied(f) == f.pc \notin {"append_exec", "append_commit", "apply"}

\* a handler sees the event in the world state and in the log
HandlerSeesEvent ==
    \A i \in 1..Len(handler_calls) :
        handler_calls[i].in_state /\ handler_calls[i].in_log

\* C8: every handler call sees its event in the world state and in the log,
\* and a checkpoint written at the end of an emit holds that emit's event.
C8_EmitOrder ==
    /\ []HandlerSeesEvent
    /\ [][\A t \in Tasks :
            (At(t, "dispatch") /\ Top(t).hs = <<>> /\ checkpoints' # checkpoints)
            => Top(t).ev.event_id \in
                   Range(checkpoints'[clock_time * StampGrain].state_data.applied)]_vars

\* C9: the log takes the events in the order their emits began, and of two
\* emits in progress the later one is never logged or applied ahead of the
\* earlier one.
C9_EmitOrderKept ==
    /\ \A i, j \in 1..Len(log) : i < j => log[i].event_id < log[j].event_id
    /\ \A f, g \in EmitFrames :
          f.ev.event_id < g.ev.event_id =>
              /\ Logged(g) => Logged(f)
              /\ Applied(g) => Applied(f)

\* two tasks are inside emit at once and both events are in the log
C9_Witness ==
    /\ \A t \in Tasks : stack[t] # <<>> /\ Top(t).ev # NoEvent
    /\ Len(log) = 2

\* C10: a seek whose SELECT the store has served never fails on turning
\* the rows back into events, whatever their kinds.
C10_UnknownKindHarmless ==
    [][\A t \in Tasks :
          (InSeek(t) /\ Top(t).pc = "query_fetch")
          => ~Raised("seek", "EventRetrievalError")]_vars

\* task t is inside a call of kind `op`
InOp(t, op) == stack[t] # <<>> /\ Top(t).op = op

\* this step is the call of `op` by an idle task
CallOf(op) ==
    \E t \in Tasks :
        /\ stack[t] = <<>>
        /\ IF stack'[t] # <<>> THEN Head(stack'[t]).op = op
           ELSE result' # result /\ result'.task = t /\ result'.op = op

ClockOps == {"clock.start", "clock.pause", "clock.resume", "clock.stop", "clock.seek"}

\* C11: the lifecycle changes only as the table says: paused is entered from
\* running only; start ends in running; pause takes running to paused;
\* resume takes paused to running and leaves every other state; stop ends
\* in stopped.
C11_ClockTable ==
    [][/\ (clock_state' = "paused" /\ clock_state # "paused")
             => clock_state = "running"
       /\ CallOf("clock.start") => clock_state' = "running"
       /\ (CallOf("clock.pause") /\ clock_state = "running")
             => clock_state' = "paused"
       /\ CallOf("clock.resume")
             => clock_state' = (IF clock_state = "paused" THEN "running"
                                ELSE clock_state)
       /\ CallOf("clock.stop") => clock_state' = "stopped"
       /\ clock_state' # clock_state
             => \E op \in ClockOps : CallOf(op) \/ \E t \in Tasks : InOp(t, op)]_vars

\* the step of seek that writes current_time
SeekJump(t) ==
    /\ InOp(t, "clock.seek")
    /\ Top(t).pc \in {"clock_seek", "seek_clock_pause"}
    /\ stack'[t] = <<>> \/ Head(stack'[t]).pc = "seek_clock_start"

\* C12: seek writes max(0, t) into current_time; if the clock runs after
\* that step, its wall-clock reference was taken in the same step, and no
\* tick falls between the pause inside seek and the jump; when seek returns
\* the lifecycle is what it was at the call.
C12_ClockSeek ==
    [][\A t \in Tasks :
          /\ SeekJump(t)
                => /\ clock_time' = Max0(Top(t).tgt)
                   /\ is_running' => lag' = 0
          /\ (InOp(t, "clock.seek") /\ Top(t).pc = "seek_clock_pause"
                 /\ ~SeekJump(t))
                => clock_time' = clock_time
          /\ (InOp(t, "clock.seek") /\ stack'[t] = <<>>)
                => /\ clock_state' = Top(t).pre.clock_state
                   /\ ~is_running' => clock_time' = Max0(Top(t).tgt)]_vars

\* a running clock that real time had run ahead of has jumped backwards
C12_Witness ==
    /\ InOp("t1", "clock.seek")
    /\ Top("t1").pc = "seek_clock_start"
    /\ Top("t1").pre.clock_state = "running"
    /\ Top("t1").tgt < Top("t1").pre.clock_time
    /\ lag > 0

C14_ClockAtomic ==
    (\A t \in Tasks : stack[t] = <<>>) =>
        /\ is_running = (clock_state = "running")
        /\ is_running = (update_task = "live")
        /\ ~orphan_loop

\* the positions in log l of the events built from event id `id` on
EventsSince(l, id) == {i \in 1..Len(l) : l[i].event_id >= id}

\* this step ends the call `op` of task t with the outcome res
Ends(t, op, res) ==
    /\ InOp(t, op)
    /\ stack'[t] = <<>>
    /\ result'.res = res

\* C15: the scale is positive in every state; set_time_scale raises
\* ValueError only for s <= 0 and then changes neither the scale nor the
\* log; for s > 0 it sets the scale and builds a time.scaled event with the
\* old and the new scale, and when it returns that event is the one event
\* logged since the call.
C15_TimeScale ==
    /\ [](time_scale > 0)
    /\ [][/\ Raised("set_time_scale", "ValueError")
               => /\ result'.arg <= 0
                  /\ UNCHANGED <<time_scale, log, next_event, stack, dbq>>
          /\ \A t \in Tasks :
               /\ (CallOf("set_time_scale") /\ stack[t] = <<>> /\ stack'[t] # <<>>)
                     => /\ time_scale' > 0
                        /\ Head(stack'[t]).ev.event_type = "time.scaled"
                        /\ Head(stack'[t]).ev.data =
                               [old_scale |-> time_scale, new_scale |-> time_scale']
               /\ Ends(t, "set_time_scale", "ok")
                     => /\ time_scale' = Top(t).ev.data.new_scale
                        /\ \A i \in EventsSince(log', Top(t).ev.event_id) :
                               log'[i] = Top(t).ev
                        /\ Cardinality(EventsSince(log', Top(t).ev.event_id)) = 1]_vars

\* a call with a scale that is not positive was refused after the scale
\* had been changed to 2 by a call whose event is in the log
C15_Witness ==
    /\ Finished("set_time_scale")
    /\ result.res = "ValueError"
    /\ time_scale = 2
    /\ \E i \in 1..Len(log) :
          log[i].event_type = "time.scaled" /\ log[i].data.new_scale = 2

\* C16: start on a running simulation changes nothing and logs nothing;
\* otherwise, when start returns, _running is set, the clock runs, one
\* movement loop task is alive and one simulation.started event has been
\* logged since the call.
C16_StartOnce ==
    [][/\ (CallOf("start") /\ sim_running)
            => UNCHANGED <<lifeVars, clockVars, storeVars, state, regVars,
                           index_pos, stack, dbq, next_event, handler_calls>>
       /\ \A t \in Tasks :
            Ends(t, "start", "ok")
            => /\ sim_running'
               /\ is_running' /\ clock_state' = "running" /\ update_task' = "live"
               /\ movement_running' /\ movement_tasks' = 1
               /\ Top(t).ev.event_type = "simulation.started"
               /\ \A i \in EventsSince(log', Top(t).ev.event_id) :
                      log'[i] = Top(t).ev
               /\ Cardinality(EventsSince(log', Top(t).ev.event_id)) = 1]_vars

\* C17: when stop or shutdown returns, the clock is stopped with no update
\* task, no movement loop task is alive, and after shutdown the store is
\* closed.
C17_StopStopsAll ==
    [][\A t \in Tasks : \A op \in {"stop", "shutdown"} :
          (\/ Ends(t, op, "ok")
           \/ (stack[t] = <<>> /\ stack'[t] = <<>> /\ result' # result
                 /\ result'.task = t /\ result'.op = op))
          => /\ clock_state' = "stopped"
             /\ ~is_running'
             /\ update_task' = "none"
             /\ ~movement_running'
             /\ movement_tasks' = 0
             /\ op = "shutdown" => ~db_open']_vars

\* the ids listed under a type label in world state s
TypeSet(s, ty) == IF ty \in DOMAIN s.entity_types THEN s.entity_types[ty] ELSE {}

\* C18: in the world state, an id is listed under a type label exactly when
\* its entity exists and has that type.
C18_TypeMirror ==
    \A id \in EntityIds, ty \in EntityTypeLabels :
        id \in TypeSet(state, ty)
            <=> (id \in DOMAIN state.entities /\ state.entities[id].type = ty)

UserOnly(hs) == SelectSeq(hs, LAMBDA h : h \in UserHandlers)
CallsFor(calls, id) == SelectSeq(calls, LAMBDA c : c.event_id = id)
Names(cs) == [i \in 1..Len(cs) |-> cs[i].handler]

InDispatch(t) == stack[t] # <<>> /\ Top(t).op \in {"dispatch", "dispatch_ff"}

\* C19: the list a dispatch runs over is the typed handlers of the kind in
\* registration order followed by the wildcard handlers in registration
\* order; at every moment of the dispatch the handlers invoked so far,
\* followed by those still to come, are that list: none is invoked before
\* the one ahead of it has finished.
C19_DispatchOrder ==
    /\ [](\A t \in Tasks : InDispatch(t) =>
            LET f == Top(t)
                rest == IF f.pc = "handler_wait" THEN Tail(f.hs) ELSE f.hs
            IN /\ \E k \in 0..Len(f.rows) : f.hs = SubSeq(f.rows, k + 1, Len(f.rows))
               /\ Names(CallsFor(handler_calls, f.ev.event_id)) \o UserOnly(rest)
                     = UserOnly(f.rows))
    /\ [][\A t \in Tasks :
            (stack[t] = <<>> /\ InDispatch(t)')
            => LET kind == Head(stack'[t]).ev.event_type IN
               Head(stack'[t]).rows =
                   (IF kind \in DOMAIN handlers THEN handlers[kind] ELSE <<>>)
                   \o wildcard_handlers]_vars

\* a dispatch has run through a typed user handler, the handler of the
\* spatial index and two wildcard handlers, the last of which had suspended
C19_Witness ==
    /\ InDispatch("t1")
    /\ Top("t1").hs = <<>>
    /\ Len(Top("t1").rows) = 4
    /\ Len(wildcard_handlers) = 2
    /\ Top("t1").rows[1] \in UserHandlers
    /\ Len(CallsFor(handler_calls, Top("t1").ev.event_id)) = 3
    /\ index_pos # EmptyMap

\* C20: in a dispatch with fail_fast set, a handler that raises ends the
\* dispatch with HandlerExecutionError in that very step; the handlers
\* invoked for the event are then the ones up to it in dispatch order, each
\* once, and none of the earlier ones raised; no handler is invoked for an
\* event outside its dispatch.
C20_FailFast ==
    [][/\ handler_calls' # handler_calls
            => \E t \in Tasks :
                  /\ At(t, "dispatch")
                  /\ handler_calls' = Append(handler_calls,
                         handler_calls'[Len(handler_calls')])
                  /\ handler_calls'[Len(handler_calls')].event_id = Top(t).ev.event_id
       /\ \A t \in Tasks : InOp(t, "dispatch_ff") =>
            LET cs == CallsFor(handler_calls', Top(t).ev.event_id)
                all == UserOnly(Top(t).rows)
            IN /\ (handler_calls' # handler_calls
                      /\ handler_calls'[Len(handler_calls')].raised)
                  => Ends(t, "dispatch_ff", "HandlerExecutionError")
               /\ Ends(t, "dispatch_ff", "HandlerExecutionError")
                  => /\ Len(cs) >= 1 /\ Len(cs) <= Len(all)
                     /\ Names(cs) = SubSeq(all, 1, Len(cs))
                     /\ cs[Len(cs)].raised
                     /\ \A i \in 1..(Len(cs) - 1) : ~cs[i].raised
               /\ Ends(t, "dispatch_ff", "ok")
                  => \A i \in 1..Len(cs) : ~cs[i].raised]_vars

\* a dispatch with fail_fast over three handlers was ended by the second
C20_Witness ==
    /\ Finished("dispatch_ff")
    /\ result.res = "HandlerExecutionError"
    /\ Len(wildcard_handlers) = 3
    /\ Len(CallsFor(handler_calls, result.arg)) = 2

\* task t is in the dispatch loop of an emit or of a dispatch without fail_fast
InLenientLoop(t) ==
    /\ stack[t] # <<>>
    /\ Top(t).op \in {"emit", "dispatch"}
    /\ Top(t).pc \in {"dispatch", "handler_wait"}

\* C21: without fail_fast a handler that raises does not end the call: the
\* loop ends only with its list used up, every user handler of that list
\* invoked once each, in order, and the call returns normally; an emit that
\* has reached its dispatch returns normally with the event in the log and
\* in the world state, and with a checkpoint of that state written if the
\* clock time calls for one.
C21_HandlerFailuresIsolated ==
    [][\A t \in Tasks : InLenientLoop(t) =>
         LET f == Top(t) IN
         /\ stack'[t] = <<>> =>
               /\ f.hs = <<>>
               /\ result' = [task |-> t, op |-> f.op, arg |-> f.tgt, res |-> "ok"]
               /\ Names(CallsFor(handler_calls', f.ev.event_id)) = UserOnly(f.rows)
               /\ f.op = "emit" =>
                     /\ f.ev \in Range(log')
                     /\ f.ev.event_id \in Range(state'.applied)
                     /\ state' = state
                     /\ IF should_create_checkpoint(clock_time)
                        THEN /\ clock_time * StampGrain \in DOMAIN checkpoints'
                             /\ checkpoints'[clock_time * StampGrain] =
                                    CheckpointCreate(clock_time * StampGrain, state')
                        ELSE checkpoints' = checkpoints
         /\ stack'[t] # <<>> =>
               /\ Head(stack'[t]).rows = f.rows
               /\ Head(stack'[t]).ev = f.ev
               /\ result' = result]_vars

\* an emit has returned although two of the three user handlers subscribed
\* for its event raised, at a clock time that calls for no checkpoint
C21_Witness ==
    /\ Finished("emit")
    /\ result.res = "ok"
    /\ log # <<>>
    /\ LET e == log[Len(log)]
           cs == CallsFor(handler_calls, e.event_id)
       IN /\ Len(cs) = 3
          /\ Cardinality({i \in 1..3 : cs[i].raised}) = 2
          /\ cs[1].raised
          /\ e.simulation_time = 1
          /\ e.event_id \in Range(state.applied)
          /\ DOMAIN checkpoints = {0}

\* get_entity_position for a record r at clock time now
PositionAt(r, now) ==
    <<r.position[1] + r.velocity[1] * (now - r.last_update_time),
      r.position[2] + r.velocity[2] * (now - r.last_update_time),
      r.position[3] + r.velocity[3] * (now - r.last_update_time)>>

\* the steps of set_entity_velocity, with the clock advance during the call
\* left open (`same` = FALSE) or required to be nil (`same` = TRUE)
VelocitySteps(same) ==
    \A t \in Tasks :
        /\ (stack[t] = <<>> /\ InOp(t, "set_entity_velocity")') =>
              LET e == Head(stack'[t]).ev
                  id == e.data.entity_id
              IN /\ id \in DOMAIN state.entities
                 /\ e.event_type = "entity.moved"
                 /\ e.simulation_time = clock_time
                 /\ e.data.position = PositionAt(state.entities[id], clock_time)
                 /\ "velocity" \in DOMAIN e.data
                 /\ next_event' = next_event + 1
                 /\ UNCHANGED <<log, state>>
        /\ (result' # result /\ result'.res = "no_entity") =>
              /\ result'.op = "set_entity_velocity"
              /\ UNCHANGED <<log, state, next_event, index_pos, checkpoints, dbq>>
              /\ stack' = stack
        /\ InOp(t, "set_entity_velocity") =>
              LET e == Top(t).ev
                  id == e.data.entity_id
              IN /\ next_event' = next_event
                 /\ log' # log => log' = Append(log, e)
                 /\ stack'[t] = <<>> =>
                       /\ result'.res = "ok"
                       /\ Cardinality({i \in 1..Len(log') : log'[i] = e}) = 1
                       /\ id \in DOMAIN state'.entities
                       /\ state'.entities[id].position = e.data.position
                       /\ state'.entities[id].velocity = e.data.velocity
                       /\ state'.entities[id].last_update_time = e.simulation_time
                       /\ PositionAt(state'.entities[id], e.simulation_time)
                             = e.data.position
                       /\ same => PositionAt(state'.entities[id], clock_time')
                                     = e.data.position

\* C22 as stated: the position read right after the call is the position
\* read right before it.
C22_NoPositionJump == [][VelocitySteps(TRUE)]_vars

\* C22, amended: the call builds one entity.moved event with the position
\* interpolated at the clock time `now` of the call and the new velocity;
\* when it returns that event is in the log once and the record holds that
\* position, that velocity and last_update_time = now, so that the position
\* at time `now` is the same by the old and the new record; for an id that
\* names no entity nothing changes.
C22_VelocityChange == [][VelocitySteps(FALSE)]_vars

\* set_entity_velocity has returned for an entity that was already moving,
\* and the clock went on during the call
C22_Witness ==
    /\ Finished("set_entity_velocity")
    /\ result.res = "ok"
    /\ log # <<>>
    /\ LET e == log[Len(log)] IN
         /\ e.event_type = "entity.moved"
         /\ e.data.position # Origin
         /\ e.data.velocity # Origin
         /\ e.data.entity_id \in DOMAIN state.entities
         /\ clock_time > e.simulation_time

\* C23: the log is append-only: every step leaves the rows it held in place
\* and unaltered, so its count never decreases, and no two rows carry the
\* same event id; this for emit, the entity operations, seek, start, pause,
\* resume, stop and set_time_scale.
C23_AppendOnly ==
    /\ [](\A i, j \in 1..Len(log) : i # j => log[i].event_id # log[j].event_id)
    /\ [][/\ Len(log') >= Len(log)
          /\ SubSeq(log', 1, Len(log)) = log]_vars

\* after a seek back to time 0 a new event was emitted at a time earlier
\* than that of an event logged before, which is still there
C23_Witness ==
    /\ Finished("emit")
    /\ result.res = "ok"
    /\ Len(log) = 2
    /\ log[1].simulation_time > log[2].simulation_time
    /\ log[1].event_id < log[2].event_id
    /\ snap.phase = "void"

\* C24: append_batch is all-or-nothing: when it returns, every event of the
\* batch is in the log; when it raises, the log is what it was before the
\* call, so none of the batch's events is in it
C24_BatchAllOrNothing ==
    [][\A t \in Tasks :
         /\ Ends(t, "append_batch", "ok")
              => \A i \in 1..Len(Top(t).rows) : Top(t).rows[i] \in Range(log')
         /\ Ends(t, "append_batch", "EventPersistenceError") => log' = log]_vars

\* the arguments of a query: the kinds filter is absent, or a list that
\* names at least one kind
QueryFilters ==
    {[given |-> FALSE, kinds |-> {}]}
    \cup {[given |-> TRUE, kinds |-> K] :
             K \in (SUBSET {"marker.created", "time.scaled", CustomKind}) \ {{}}}

\* C25: on an open store a query returns exactly the logged events with
\* from_time <= simulation_time, with simulation_time <= to_time when
\* to_time is given, of the given kinds when a filter is given, ordered by
\* simulation_time and then created_at
C25_QueryExact ==
    db_open =>
      \A from_time \in 0..MaxTime, to_time \in -1..MaxTime, event_types \in QueryFilters :
        LET r == get_events(log, from_time, to_time, event_types)
            want == {i \in 1..Len(log) :
                       /\ from_time <= log[i].simulation_time
                       /\ to_time # -1 => log[i].simulation_time <= to_time
                       /\ event_types.given => log[i].event_type \in event_types.kinds}
        IN /\ ~r.raised
           /\ Len(r.events) = Cardinality(want)
           /\ Range(r.events) = {log[i] : i \in want}
           /\ \A i, j \in 1..Len(r.events) :
                 i < j => \/ r.events[i].simulation_time < r.events[j].simulation_time
                          \/ /\ r.events[i].simulation_time = r.events[j].simulation_time
                             /\ r.events[i].created_at < r.events[j].created_at

\* C26: get_nearest_before(t) returns the stored checkpoint with the largest
\* simulation_time <= t, and None exactly when no stored checkpoint has a
\* simulation_time <= t
C26_NearestBefore ==
    \A t \in 0..(MaxTime * StampGrain) :
      LET ts == get_nearest_before(checkpoints, t)
          upto == {k \in DOMAIN checkpoints : checkpoints[k].simulation_time <= t}
      IN IF upto = {}
         THEN ts = -1
         ELSE /\ ts \in upto
              /\ \A k \in upto :
                    checkpoints[k].simulation_time <= checkpoints[ts].simulation_time

\* C27: cleanup_old_checkpoints(keep_count) with keep_count >= 0 on n stored
\* checkpoints leaves exactly min(n, keep_count) of them, unchanged, and
\* they are the ones with the largest simulation_time
C27_CleanupKeepsNewest ==
    [][(result' # result /\ result'.op = "cleanup") =>
         LET keep_count == result'.arg
             n == Cardinality(DOMAIN checkpoints)
             kept == DOMAIN checkpoints'
         IN /\ kept \subseteq DOMAIN checkpoints
            /\ Cardinality(kept) = IF n <= keep_count THEN n ELSE keep_count
            /\ \A a \in kept :
                  /\ checkpoints'[a] = checkpoints[a]
                  /\ \A b \in DOMAIN checkpoints \ kept :
                        checkpoints[b].simulation_time < checkpoints[a].simulation_time]_vars

\* C28: query_radius returns exactly the ids in the index whose distance
\* to the center (in the plane, or in space with include_z) is at most the
\* radius, each id once
C28_RadiusExact ==
    \A center \in IndexPoints, radius \in 0..1, include_z \in BOOLEAN :
      LET r == query_radius(Index, center, radius, include_z) IN
      /\ DOMAIN r = {id \in DOMAIN index_pos :
                       Dist2(index_pos[id], center, include_z) <= radius * radius}
      /\ \A id \in DOMAIN r : r[id] = 1

\* C29: query_bbox and nearest_neighbors answer from the latest position of
\* each id in the index: query_bbox returns the ids whose latest position is
\* in the box, the nearest neighbour is an id of the index whose latest
\* position is nearest, and one is found when the index is not empty;
\* update of an unknown id is insert, remove of an unknown id changes nothing
C29_LatestPositionsOnly ==
    /\ \A min_point \in IndexPoints, max_point \in IndexPoints :
          DOMAIN query_bbox(Index, min_point, max_point)
            = {id \in DOMAIN index_pos :
                 \A i \in 1..3 : /\ min_point[i] <= index_pos[id][i]
                                 /\ index_pos[id][i] <= max_point[i]}
    /\ \A point \in IndexPoints :
          LET r == nearest_neighbors(Index, point, 1, TRUE) IN
          /\ DOMAIN r \subseteq DOMAIN index_pos
          /\ index_pos # EmptyMap => DOMAIN r # {}
          /\ \A id \in DOMAIN r, other \in DOMAIN index_pos :
                r[id].dist2 <= Dist2(index_pos[other], point, TRUE)
    /\ \A id \in EntityIds \ DOMAIN index_pos, obj \in {"key", "other"} :
          /\ IndexRemove(Index, id, obj) = {Index}
          /\ \A position \in IndexPoints :
                IndexUpdate(Index, id, obj, position) = IndexInsert(Index, id, obj, position)

\* C30: the step that ends the dispatch of an emit writes a checkpoint
\* exactly when the clock time is 0 or a multiple of the interval; the
\* checkpoint carries that clock time and the world state with the event of
\* the emit reduced into it, and takes the place of the one of that time,
\* so that no two stored checkpoints have the same time
C30_EmitCheckpoint ==
    /\ [](\A j, k \in DOMAIN checkpoints :
            checkpoints[j].simulation_time = checkpoints[k].simulation_time => j = k)
    /\ [][\A t \in Tasks :
            (/\ At(t, "dispatch") /\ Top(t).hs = <<>>
             /\ Top(t).op \notin {"dispatch", "dispatch_ff"}
             /\ stack'[t] # stack[t])
            => IF clock_time = 0 \/ clock_time % CheckpointInterval = 0
               THEN LET k == clock_time * StampGrain IN
                    /\ DOMAIN checkpoints' = DOMAIN checkpoints \cup {k}
                    /\ \A j \in DOMAIN checkpoints \ {k} : checkpoints'[j] = checkpoints[j]
                    /\ checkpoints'[k].simulation_time = k
                    /\ checkpoints'[k].state_data = state
                    /\ Top(t).ev.event_id \in Range(state.applied)
               ELSE checkpoints' = checkpoints]_vars

\* no call is in progress and no seek has been made so far
QuietNoSeek ==
    /\ cpu = NoTask
    /\ \A t \in Tasks : stack[t] = <<>>
    /\ snap.phase \in {"none", "taken"}

\* this step ends the emit of task t (a call that built an event)
EmitEnds(t) ==
    /\ stack[t] # <<>> /\ stack'[t] = <<>>
    /\ Top(t).ev # NoEvent
    /\ Top(t).op \notin {"dispatch", "dispatch_ff"}

\* C31: applying an event adds one to event_count and sets simulation_time
\* to the time of the event, whatever its kind and whether or not its entity
\* is known; an emit leaves its event in the log exactly when it succeeds,
\* so that without a seek event_count, the number of successful emits and
\* the length of the log agree whenever no call is in progress
C31_EventCount ==
    /\ [](\A kind \in {CustomKind, "marker.created", "entity.moved", "entity.destroyed"},
             id \in EntityIds, time \in Times :
             LET e == [event_id |-> next_event + 1, event_type |-> kind,
                       simulation_time |-> time, created_at |-> next_event + 1,
                       data |-> [entity_id |-> id]]
                 s == apply_event(state, e)
             IN s.event_count = state.event_count + 1 /\ s.simulation_time = time)
    /\ [][\A t \in Tasks : At(t, "apply") /\ state' # state
            => /\ state'.event_count = state.event_count + 1
               /\ state'.simulation_time = Top(t).ev.simulation_time]_vars
    /\ [](QuietNoSeek => state.event_count = Len(log))
    /\ [][\A t \in Tasks : EmitEnds(t)
            => (result'.res = "ok" <=> Top(t).ev \in Range(log'))]_vars

\* the reducer took s0 to s1 by the event e and kept to the entity e names
ReducerKeeps(s0, e, s1) ==
    LET entity_kinds == {"entity.created", "entity.moved", "entity.destroyed"}
        Members(s, ty) == IF ty \in DOMAIN s.entity_types THEN s.entity_types[ty] ELSE {}
        same == s1.entities = s0.entities /\ s1.entity_types = s0.entity_types
    IN /\ e.event_type \notin entity_kinds => same
       /\ (/\ e.event_type \in {"entity.moved", "entity.destroyed"}
           /\ e.data.entity_id \notin DOMAIN s0.entities) => same
       /\ e.event_type \in entity_kinds =>
            \A other \in EntityIds \ {e.data.entity_id} :
                /\ other \in DOMAIN s1.entities <=> other \in DOMAIN s0.entities
                /\ other \in DOMAIN s0.entities => s1.entities[other] = s0.entities[other]
                /\ \A ty \in EntityTypeLabels :
                      other \in Members(s1, ty) <=> other \in Members(s0, ty)

\* C32: the reducer changes entity state only for the entity an entity event
\* names: other kinds, and entity.moved or entity.destroyed for an unknown
\* id, leave entities and entity_types as they are, and an entity event
\* leaves the record and the type of every other id as they are; for every
\* event that could be applied to the state, and in every emit that applies
C32_ReducerFrame ==
    /\ [](\A kind \in EventType \cup {CustomKind}, id \in EntityIds,
             ty \in EntityTypeLabels :
             LET e == [event_id |-> next_event + 1, event_type |-> kind,
                       simulation_time |-> clock_time, created_at |-> next_event + 1,
                       data |-> [entity_id |-> id, type |-> ty, position |-> Origin,
                                 velocity |-> <<1, 0, 0>>]]
             IN ReducerKeeps(state, e, apply_event(state, e)))
    /\ [][\A t \in Tasks : At(t, "apply") => ReducerKeeps(state, Top(t).ev, state')]_vars

\* two entities live, one of them set moving or sent back to rest by an
\* event applied while the other was there
C32_Witness ==
    /\ cpu = NoTask
    /\ DOMAIN state.entities = EntityIds
    /\ state.event_count = RewindEvents
    /\ \E id \in EntityIds : state.entities[id].velocity # Origin

\* no call of the caller is in progress
NoCall == cpu = NoTask /\ \A t \in Tasks : stack[t] = <<>>

C33_WitnessSeek ==
    /\ NoCall
    /\ snap.phase \notin {"none", "taken"}
    /\ \E id \in DOMAIN state.entities :
          state.entities[id].last_update_time < state.simulation_time

\* a step of the movement loop: the loop is running, no task has the
\* processor before or after, and neither a call, the clock nor the
\* lifecycle moves
LoopStep ==
    /\ cpu = NoTask
    /\ movement_running
    /\ UNCHANGED <<lifeVars, clockVars, taskVars>>

\* where the movement loop puts entity id at the current clock time
Interpolated(id) ==
    get_interpolated_position(state.entities[id].position, state.entities[id].velocity,
                              state.entities[id].last_update_time, clock_time)

\* C34: a tick of the movement loop changes no world state, emits nothing
\* (log, handler calls, checkpoints and the event counter stay), and in the
\* spatial index it touches the entities with non-zero velocity only, whose
\* position becomes the interpolated one
C34_TickOnlyIndex ==
    [][LoopStep =>
         /\ state' = state
         /\ log' = log /\ checkpoints' = checkpoints
         /\ next_event' = next_event /\ handler_calls' = handler_calls
         /\ \A id \in EntityIds \ Moving :
               /\ id \in DOMAIN index_pos' <=> id \in DOMAIN index_pos
               /\ id \in DOMAIN index_pos => index_pos'[id] = index_pos[id]
         /\ {en \in rtree' : en.id \notin Moving} = {en \in rtree : en.id \notin Moving}
         /\ \A id \in Moving :
               id \in DOMAIN index_pos' /\ index_pos'[id] = Interpolated(id)]_vars

\* with no call in progress the loop has put a moving entity at its
\* interpolated position, ahead of the position the world state stores
C34_Witness ==
    /\ NoCall
    /\ movement_running
    /\ \E id \in Moving :
          /\ id \in DOMAIN index_pos
          /\ index_pos[id] = Interpolated(id)
          /\ index_pos[id] # state.entities[id].position

\* C35: in a run without seek, whenever no emit is in progress the ids the
\* spatial index holds are the live entities of the world state: an
\* entity.created that returned has added its id, an entity.destroyed that
\* returned has removed it, and a tick of the movement loop neither adds nor
\* removes an id
C35_IndexIds ==
    /\ []((\A t \in Tasks : stack[t] = <<>>)
            => DOMAIN index_pos = DOMAIN state.entities)
    /\ [][LoopStep => DOMAIN index_pos' = DOMAIN index_pos]_vars
    /\ [][\A t \in Tasks : (EmitEnds(t) /\ result'.res = "ok") =>
            /\ Top(t).ev.event_type = "entity.created"
                  => Top(t).ev.data.entity_id \in DOMAIN index_pos'
            /\ Top(t).ev.event_type = "entity.destroyed"
                  => Top(t).ev.data.entity_id \notin DOMAIN index_pos']_vars

\* C36: emit is all-or-nothing: an emit that raises after its event was
\* built leaves the event out of the log and out of the world state, and
\* every event of the log is one the reducer accepts, so that a later seek
\* can replay it
C36_EmitAllOrNothing ==
    /\ [][\A t \in Tasks : (EmitEnds(t) /\ result'.res # "ok") =>
            /\ Top(t).ev \notin Range(log')
            /\ Top(t).ev.event_id \notin Range(state'.applied)]_vars
    /\ [](\A i \in 1..Len(log) : ~ReducerRaises(log[i]))

\* the logged events with a time up to the time of checkpoint c, in
\* canonical order
EventsUpTo(c) ==
    SortRows({e \in Range(log) : e.simulation_time * StampGrain <= c.simulation_time})

\* C37: whenever no call is in progress, the state every stored checkpoint
\* holds is the fold, over an empty WorldState, of all logged events with a
\* time up to the checkpoint's time, also after a backward seek followed by
\* emits at earlier times
C37_CheckpointsMatchLog ==
    NoCall =>
        \A k \in DOMAIN checkpoints :
            CoreState(checkpoints[k].state_data) =
                CoreState(Replay(EmptyWorldState, EventsUpTo(checkpoints[k])))

\* C38: whenever no call is in progress, get_status().running (_running) is
\* true exactly when the clock is running, whatever sequence of start,
\* pause, resume, stop and seek led there; in particular a resume on a
\* simulation that is not paused does not set running over a stopped clock,
\* and a start that returns leaves the clock running instead of doing nothing
C38_RunningMirrorsClock ==
    /\ [](NoCall => (sim_running <=> (is_running /\ clock_state = "running")))
    /\ [][(result' # result /\ result'.op = "start" /\ result'.res = "ok")
            => (sim_running' /\ is_running' /\ clock_state' = "running")]_vars

\* C39: the handlers a dispatch invokes are those registered for the kind,
\* followed by the wildcard handlers, at the moment the dispatch began:
\* its list is fixed from then on whatever is subscribed or unsubscribed
\* meanwhile, at every moment the calls made so far followed by those to
\* come are that list, and a dispatch that returns has invoked exactly it
C39_DispatchSnapshot ==
    /\ [][\A t \in Tasks :
            /\ (stack[t] = <<>> /\ InDispatch(t)')
                  => Head(stack'[t]).rows = all_handlers(Head(stack'[t]).ev.event_type)
            /\ (InDispatch(t) /\ InDispatch(t)')
                  => Top(t).rows' = Top(t).rows
            /\ Ends(t, Top(t).op, "ok")
                  => Names(CallsFor(handler_calls', Top(t).ev.event_id))
                        = UserOnly(Top(t).rows)]_vars
    /\ [](\A t \in Tasks : InDispatch(t) =>
            LET f == Top(t)
                rest == IF f.pc = "handler_wait" THEN Tail(f.hs) ELSE f.hs
            IN Names(CallsFor(handler_calls, f.ev.event_id)) \o UserOnly(rest)
                  = UserOnly(f.rows))

\* a dispatch has invoked the handler it began with, while that handler was
\* unsubscribed and another one subscribed during the dispatch
C39_Witness ==
    /\ InDispatch("t1")
    /\ Top("t1").hs = <<>>
    /\ Names(CallsFor(handler_calls, Top("t1").ev.event_id)) = Top("t1").rows
    /\ Range(Top("t1").rows) \ Range(all_handlers(CustomKind)) # {}
    /\ Range(all_handlers(CustomKind)) \ Range(Top("t1").rows) # {}

\* C40: however an emit and a seek interleave at their suspension points,
\* once the calls have completed the world state is not ahead of the clock:
\* state.simulation_time <= clock.current_time, and no live entity has a
\* last_update_time greater than the clock time
C40_StateNotAheadOfClock ==
    NoCall =>
        /\ state.simulation_time <= clock_time
        /\ \A id \in DOMAIN state.entities :
              state.entities[id].last_update_time <= clock_time

====
